---- MODULE Spec2Model ----
(***************************************************************************)
(* Model of the live-subtitles captioning engine: the streaming segmenter   *)
(* (src/src/streaming.rs, StreamingSegmenter) and the hypothesis stabilizer *)
(* (src/src/streaming.rs, Stabilizer).                                      *)
(*                                                                          *)
(* Units.  The source keeps durations as f32 seconds or u64 milliseconds    *)
(* and amplitudes as f32; the model keeps every duration in integer         *)
(* milliseconds and every amplitude in integer thousandths (0.012 is 12),   *)
(* so that the conversions of StreamingSegmenter::new are exact integer     *)
(* arithmetic.  A sample is a record [id, amp]: amp is the amplitude, id is *)
(* the position of the sample in the input stream (it lets a payload be     *)
(* compared with the part of the stream it was cut from).                   *)
(***************************************************************************)
EXTENDS Integers, Sequences, FiniteSets, TLC

VARIABLES
    seg,          \* the StreamingSegmenter struct
    input,        \* the whole audio stream the capture side will deliver
    fed,          \* number of samples of input already passed to push_audio
    events,       \* every StreamingEvent returned by push_audio so far, in order
    onsets,       \* frame numbers of the voice-onset frames processed so far
    frames_done,  \* number of frames processed so far
    stab,         \* the Stabilizer struct
    op,           \* the last Stabilizer operation called
    ret,          \* what that operation returned
    finalized,    \* the hypothesis given to finalize, when that was the last
                  \* operation (empty otherwise)
    seen,         \* scripted runs: the pending tail of the last update call,
                  \* with the number of update calls in a row each token has
                  \* kept its place
    calls,        \* scripted runs: the update calls so far, in order
    event_q,      \* the bounded queue of StreamingEvents (event_tx, event_rx)
    caption_q,    \* the bounded queue of CaptionEvents (caption_tx, caption_rx)
    worker,       \* the transcription thread: its position and its locals
    producer,     \* the processing thread, as far as the event queue sees it
    stop,         \* the stop flag
    iter,         \* what the current iteration of the worker loop has done
    hist,         \* what has gone on and off the two queues so far
    audio_q,      \* the bounded queue of audio chunks (audio_tx, audio_rx)
    capture,      \* the capture thread and the audio callback of its stream
    proc,         \* the processing thread: its position in its loop
    sup,          \* the caller of start_engine and stop_and_join
    last_send     \* the last try_send of the audio callback or of the
                  \* processing thread, and whether its failure was logged

vars == <<seg, input, fed, events, onsets, frames_done, stab, op, ret,
          finalized, seen, calls, event_q, caption_q, worker, producer, stop, iter,
          hist, audio_q, capture, proc, sup, last_send>>

segVars == <<seg, input, fed, events, onsets, frames_done>>
stabVars == <<stab, op, ret, finalized, seen, calls>>
workerVars == <<event_q, caption_q, worker, producer, stop, iter, hist>>
engineVars == <<audio_q, capture, proc, sup, last_send>>

(***************************************************************************)
(* Arithmetic helpers                                                       *)
(***************************************************************************)
Min(a, b) == IF a <= b THEN a ELSE b
Max(a, b) == IF a >= b THEN a ELSE b

\* f32::round of the non-negative quotient a / b (half rounds away from zero)
RoundDiv(a, b) == (2 * a + b) \div (2 * b)

\* usize::saturating_sub
saturating_sub(a, b) == IF a >= b THEN a - b ELSE 0

\* the last n elements of s (all of s when it is shorter)
LastN(s, n) == SubSeq(s, Len(s) - Min(n, Len(s)) + 1, Len(s))

\* the first n elements of s (all of s when it is shorter)
FirstN(s, n) == SubSeq(s, 1, Min(n, Len(s)))

(***************************************************************************)
(* Program constants                                                        *)
(***************************************************************************)
FrameMs == 20
CompactFrames == 128
DefaultSampleRateHz == 16000
DefaultVadThreshold == 12
DefaultVadEndSilenceMs == 600
DefaultMaxSegmentMs == 20000
DefaultPreRollMs == 250
DefaultMinSpeechMs == 300
DefaultAsrStepMs == 350
DefaultMaxWindowMs == 12000

DefaultCfg ==
    [ sample_rate_hz    |-> DefaultSampleRateHz,
      vad_threshold     |-> DefaultVadThreshold,
      vad_end_silence_ms |-> DefaultVadEndSilenceMs,
      max_segment_ms    |-> DefaultMaxSegmentMs,
      pre_roll_ms       |-> DefaultPreRollMs,
      min_speech_ms     |-> DefaultMinSpeechMs,
      asr_step_ms       |-> DefaultAsrStepMs,
      max_window_ms     |-> DefaultMaxWindowMs ]

(***************************************************************************)
(* StreamingSegmenter                                                       *)
(***************************************************************************)
\* StreamingSegmenter::new
new(cfg) ==
    LET frame_size == RoundDiv(cfg.sample_rate_hz * FrameMs, 1000)
        end_silence_frames == Max(RoundDiv(cfg.vad_end_silence_ms, FrameMs), 1)
        max_segment_samples ==
            Max(RoundDiv(cfg.max_segment_ms * cfg.sample_rate_hz, 1000), 1)
        pre_roll_samples == RoundDiv(cfg.pre_roll_ms * cfg.sample_rate_hz, 1000)
        min_speech_samples ==
            Max(RoundDiv(cfg.min_speech_ms * cfg.sample_rate_hz, 1000), 1)
        asr_step_samples ==
            Max(RoundDiv(cfg.asr_step_ms * cfg.sample_rate_hz, 1000), 1)
        max_window_0 == RoundDiv(cfg.max_window_ms * cfg.sample_rate_hz, 1000)
        max_window_1 == IF max_window_0 = 0 THEN max_segment_samples ELSE max_window_0
    IN  [ cfg                 |-> cfg,
          frame_size          |-> Max(frame_size, 1),
          end_silence_frames  |-> end_silence_frames,
          min_speech_samples  |-> min_speech_samples,
          max_segment_samples |-> max_segment_samples,
          pre_roll_samples    |-> pre_roll_samples,
          asr_step_samples    |-> asr_step_samples,
          max_window_samples  |-> Min(max_window_1, max_segment_samples),
          stash               |-> << >>,
          stash_pos           |-> 0,
          in_speech           |-> FALSE,
          silent_frames       |-> 0,
          pre_roll            |-> << >>,
          utterance           |-> << >>,
          last_asr_samples    |-> 0 ]

\* the sum of s * s over samples lo..hi of the frame (the loop of rms; the
\* range is summed by halves, which keeps the evaluation shallow)
RECURSIVE SumSq(_, _, _)
SumSq(frame, lo, hi) ==
    IF lo > hi THEN 0
    ELSE IF lo = hi THEN frame[lo].amp * frame[lo].amp
    ELSE LET mid == (lo + hi) \div 2
         IN  SumSq(frame, lo, mid) + SumSq(frame, mid + 1, hi)

\* (mutant) the sum of squares is compared without taking the mean
rms_without_mean(frame, threshold) ==
    IF Len(frame) = 0
    THEN 0 >= threshold
    ELSE SumSq(frame, 1, Len(frame)) >= threshold * threshold

\* rms(frame) >= threshold, for a threshold >= 0: sqrt(sum / len) >= t is
\* sum >= t * t * len; an empty frame has rms 0.0
rms_at_least(frame, threshold) ==
    IF Len(frame) = 0
    THEN 0 >= threshold
    ELSE SumSq(frame, 1, Len(frame)) >= threshold * threshold * Len(frame)

\* push_pre_roll: append the frame, then pop from the front down to capacity
\* (mutant) the pre-roll is never cut down to pre_roll_samples
push_pre_roll_uncut(pre_roll, pre_roll_samples, frame) ==
    IF pre_roll_samples = 0
    THEN pre_roll
    ELSE pre_roll \o frame

push_pre_roll(pre_roll, pre_roll_samples, frame) ==
    IF pre_roll_samples = 0
    THEN pre_roll
    ELSE LastN(pre_roll \o frame, pre_roll_samples)

\* (mutant) the counter is never reset by a voiced frame
next_silent_frames_never_reset(silent_frames, is_voice) ==
    silent_frames + 1

\* the silent-frame counter after one in-speech frame
next_silent_frames(silent_frames, is_voice) ==
    IF is_voice THEN 0 ELSE silent_frames + 1

\* (mutant) flush_utterance forgets to leave the in-speech state
flush_utterance_stays_in_speech(s) ==
    [s EXCEPT !.silent_frames = 0,
              !.pre_roll = << >>,
              !.last_asr_samples = 0,
              !.utterance = << >>]

\* StreamingSegmenter::flush_utterance: the struct afterwards (the returned
\* vector is the utterance before the call)
flush_utterance(s) ==
    [s EXCEPT !.in_speech = FALSE,
              !.silent_frames = 0,
              !.pre_roll = << >>,
              !.last_asr_samples = 0,
              !.utterance = << >>]

\* StreamingSegmenter::reset_state
reset_state(s) ==
    [s EXCEPT !.in_speech = FALSE,
              !.silent_frames = 0,
              !.pre_roll = << >>,
              !.last_asr_samples = 0,
              !.utterance = << >>]

\* (mutant) the window keeps the first samples of the utterance, not the last
window_audio_head(utterance, max_window_samples) ==
    IF Len(utterance) = 0
    THEN << >>
    ELSE SubSeq(utterance, 1, Min(max_window_samples, Len(utterance)))

\* StreamingSegmenter::window_audio
window_audio(utterance, max_window_samples) ==
    IF Len(utterance) = 0
    THEN << >>
    ELSE LET keep == Min(max_window_samples, Len(utterance))
             start == saturating_sub(Len(utterance), keep)
         IN  SubSeq(utterance, start + 1, Len(utterance))

\* StreamingEvent, with the frame number at which it was emitted and the
\* utterance as it stood at that moment (ulen its length)
Partial(audio, frame, utt) ==
    [kind |-> "Partial", audio |-> audio, frame |-> frame, ulen |-> Len(utt), utt |-> utt]
Final(audio, frame, utt) ==
    [kind |-> "Final", audio |-> audio, frame |-> frame, ulen |-> Len(utt), utt |-> << >>]
Reset(frame, utt) ==
    [kind |-> "Reset", audio |-> << >>, frame |-> frame, ulen |-> Len(utt), utt |-> << >>]

\* (mutant) a partial is due at every frame once the minimum speech is reached
partial_due_every_frame(s) ==
    Len(s.utterance) >= s.min_speech_samples

\* (mutant) a partial is due whether or not the minimum speech is reached
partial_due_before_min_speech(s) ==
    saturating_sub(Len(s.utterance), s.last_asr_samples) >= s.asr_step_samples

\* the partial-decode condition of push_audio
partial_due(s) ==
    /\ Len(s.utterance) >= s.min_speech_samples
    /\ saturating_sub(Len(s.utterance), s.last_asr_samples) >= s.asr_step_samples

\* the termination condition of push_audio
reached_end(s) ==
    LET reached_silence == s.silent_frames >= s.end_silence_frames
        reached_max == Len(s.utterance) >= s.max_segment_samples
    IN  reached_silence \/ reached_max

\* One iteration of the while loop of push_audio.  st is the loop's state:
\* the struct, the out vector, and the frame bookkeeping.
ProcessFrame(st) ==
    LET s0 == st.seg
        start == s0.stash_pos
        end == s0.stash_pos + s0.frame_size
        frame == SubSeq(s0.stash, start + 1, end)
        s == [s0 EXCEPT !.stash_pos = end]
        is_voice == rms_at_least(frame, s.cfg.vad_threshold)
        n == st.nframes
        done == [st EXCEPT !.nframes = n + 1]
    IN  IF s.in_speech
        THEN LET s1 == [s EXCEPT !.utterance = @ \o frame,
                                 !.silent_frames = next_silent_frames(@, is_voice)]
             IN  IF reached_end(s1)
                 THEN IF Len(s1.utterance) >= s1.min_speech_samples
                      THEN [done EXCEPT !.seg = flush_utterance(s1),
                                        !.out = Append(@, Final(s1.utterance, n, s1.utterance))]
                      ELSE [done EXCEPT !.seg = reset_state(s1),
                                        !.out = Append(@, Reset(n, s1.utterance))]
                 ELSE IF partial_due(s1)
                      THEN LET s2 == [s1 EXCEPT !.last_asr_samples = Len(s1.utterance)]
                           IN  [done EXCEPT
                                  !.seg = s2,
                                  !.out = Append(@, Partial(
                                      window_audio(s2.utterance, s2.max_window_samples),
                                      n, s2.utterance))]
                      ELSE [done EXCEPT !.seg = s1]
        ELSE LET s1 == [s EXCEPT !.pre_roll =
                                    push_pre_roll(@, s.pre_roll_samples, frame)]
             IN  IF is_voice
                 THEN [done EXCEPT
                         !.seg = [s1 EXCEPT !.in_speech = TRUE,
                                            !.silent_frames = 0,
                                            !.last_asr_samples = 0,
                                            !.utterance = @ \o s1.pre_roll,
                                            !.pre_roll = << >>],
                         !.onsets = Append(@, n)]
                 ELSE [done EXCEPT !.seg = s1]

\* the while loop of push_audio
RECURSIVE ProcessFrames(_)
ProcessFrames(st) ==
    IF saturating_sub(Len(st.seg.stash), st.seg.stash_pos) >= st.seg.frame_size
    THEN ProcessFrames(ProcessFrame(st))
    ELSE st

\* (mutant) the compaction drops the samples no frame has consumed too
compact_stash_drops_remainder(s) ==
    IF s.stash_pos > s.frame_size * CompactFrames
    THEN [s EXCEPT !.stash = << >>, !.stash_pos = 0]
    ELSE s

\* (mutant) the stash is never compacted
compact_stash_never(s) == s

\* the stash compaction at the end of push_audio
compact_stash(s) ==
    IF s.stash_pos > s.frame_size * CompactFrames
    THEN [s EXCEPT !.stash = SubSeq(@, s.stash_pos + 1, Len(@)), !.stash_pos = 0]
    ELSE s

\* StreamingSegmenter::push_audio
push_audio(s, audio, nframes) ==
    LET st0 == [seg |-> [s EXCEPT !.stash = @ \o audio],
                out |-> << >>, onsets |-> << >>, nframes |-> nframes]
        st1 == ProcessFrames(st0)
    IN  [st1 EXCEPT !.seg = compact_stash(@)]

(***************************************************************************)
(* Segmenter (src/src/audio.rs), the segmenter of the final-only mode.  Its *)
(* configuration is the first five fields of the StreamingConfig record.    *)
(***************************************************************************)
\* Segmenter::new
Segmenter_new(cfg) ==
    LET frame_size == RoundDiv(cfg.sample_rate_hz * FrameMs, 1000)
        end_silence_frames == Max(RoundDiv(cfg.vad_end_silence_ms, FrameMs), 1)
        max_segment_samples ==
            Max(RoundDiv(cfg.max_segment_ms * cfg.sample_rate_hz, 1000), 1)
        pre_roll_samples == RoundDiv(cfg.pre_roll_ms * cfg.sample_rate_hz, 1000)
    IN  [ cfg                 |-> cfg,
          frame_size          |-> Max(frame_size, 1),
          end_silence_frames  |-> end_silence_frames,
          max_segment_samples |-> max_segment_samples,
          pre_roll_samples    |-> pre_roll_samples,
          stash               |-> << >>,
          stash_pos           |-> 0,
          in_speech           |-> FALSE,
          silent_frames       |-> 0,
          pre_roll            |-> << >>,
          current             |-> << >> ]

\* rms(frame) >= threshold of audio.rs
Segmenter_rms_at_least(frame, threshold) ==
    IF Len(frame) = 0
    THEN 0 >= threshold
    ELSE SumSq(frame, 1, Len(frame)) >= threshold * threshold * Len(frame)

\* push_pre_roll of audio.rs
Segmenter_push_pre_roll(pre_roll, pre_roll_samples, frame) ==
    IF pre_roll_samples = 0
    THEN pre_roll
    ELSE LastN(pre_roll \o frame, pre_roll_samples)

\* Segmenter::flush_segment: the struct afterwards
flush_segment(s) ==
    [s EXCEPT !.in_speech = FALSE,
              !.silent_frames = 0,
              !.pre_roll = << >>,
              !.current = << >>]

\* (mutant) a segment ends on silence only
segment_ends_on_silence(s) == s.silent_frames >= s.end_silence_frames

\* the condition under which push_audio flushes the segment
segment_ends(s) ==
    \/ s.silent_frames >= s.end_silence_frames
    \/ Len(s.current) >= s.max_segment_samples

\* One iteration of the while loop of Segmenter::push_audio; a segment is
\* kept with the number of the frame that ended it.
Segmenter_ProcessFrame(st) ==
    LET s0 == st.seg
        frame == SubSeq(s0.stash, s0.stash_pos + 1, s0.stash_pos + s0.frame_size)
        s == [s0 EXCEPT !.stash_pos = s0.stash_pos + s0.frame_size]
        is_voice == Segmenter_rms_at_least(frame, s.cfg.vad_threshold)
        n == st.nframes
        done == [st EXCEPT !.nframes = n + 1]
    IN  IF s.in_speech
        THEN LET s1 == [s EXCEPT !.current = @ \o frame,
                                 !.silent_frames = IF is_voice THEN 0 ELSE @ + 1]
             IN  IF segment_ends(s1)
                 THEN [done EXCEPT !.seg = flush_segment(s1),
                                   !.out = Append(@, [audio |-> s1.current, frame |-> n])]
                 ELSE [done EXCEPT !.seg = s1]
        ELSE LET s1 == [s EXCEPT !.pre_roll =
                                    Segmenter_push_pre_roll(@, s.pre_roll_samples, frame)]
             IN  IF is_voice
                 THEN [done EXCEPT !.seg = [s1 EXCEPT !.in_speech = TRUE,
                                                      !.silent_frames = 0,
                                                      !.current = @ \o s1.pre_roll,
                                                      !.pre_roll = << >>]]
                 ELSE [done EXCEPT !.seg = s1]

\* the while loop of Segmenter::push_audio
RECURSIVE Segmenter_ProcessFrames(_)
Segmenter_ProcessFrames(st) ==
    IF saturating_sub(Len(st.seg.stash), st.seg.stash_pos) >= st.seg.frame_size
    THEN Segmenter_ProcessFrames(Segmenter_ProcessFrame(st))
    ELSE st

\* Segmenter::push_audio
Segmenter_push_audio(s, audio, nframes) ==
    LET st0 == [seg |-> [s EXCEPT !.stash = @ \o audio], out |-> << >>, nframes |-> nframes]
        st1 == Segmenter_ProcessFrames(st0)
    IN  [st1 EXCEPT !.seg = IF @.stash_pos > @.frame_size * CompactFrames
                            THEN [@ EXCEPT !.stash = SubSeq(@, st1.seg.stash_pos + 1, Len(@)),
                                           !.stash_pos = 0]
                            ELSE @]

(***************************************************************************)
(* The audio source: a bounded stream of whole frames, each frame either    *)
(* quiet or loud, handed to push_audio in chunks of any of a few sizes.     *)
(***************************************************************************)
MaxFrames == 6

\* a frame of constant amplitude a has rms a: loud frames sit exactly on the
\* default threshold, quiet frames just below it
QuietAmp == DefaultVadThreshold - 1
LoudAmp == DefaultVadThreshold
FrameAmps == {QuietAmp, LoudAmp}

ChunkSizes == {1, 3, 4}

\* the stream whose k-th frame has amplitude amps[k] throughout
MkStream(amps, frame_size) ==
    [i \in 1..(Len(amps) * frame_size) |->
        [id |-> i, amp |-> amps[((i - 1) \div frame_size) + 1]]]

\* n frames of amplitude a
Frames(n, a) == [k \in 1..n |-> a]

Configs ==
    [ sample_rate_hz     : {100},
      vad_threshold      : {DefaultVadThreshold},
      vad_end_silence_ms : {20, 40},
      max_segment_ms     : {50, 80},
      pre_roll_ms        : {0, 10, 30},
      min_speech_ms      : {10, 60},
      asr_step_ms        : {10, 30},
      max_window_ms      : {0, 30} ]

(***************************************************************************)
(* Stabilizer.  A string is a sequence of one-character strings; a token    *)
(* is a non-empty string without whitespace.                                *)
(***************************************************************************)
IsSpace(c) == c = " "

\* str::split_whitespace, scanning from position i with the token cur open
RECURSIVE SplitFrom(_, _, _)
SplitFrom(s, i, cur) ==
    IF i > Len(s)
    THEN IF cur = << >> THEN << >> ELSE <<cur>>
    ELSE IF IsSpace(s[i])
         THEN IF cur = << >>
              THEN SplitFrom(s, i + 1, << >>)
              ELSE <<cur>> \o SplitFrom(s, i + 1, << >>)
         ELSE SplitFrom(s, i + 1, Append(cur, s[i]))

tokenize(s) == SplitFrom(s, 1, << >>)

\* [String]::join(" ")
RECURSIVE Join(_)
Join(tokens) ==
    IF Len(tokens) = 0 THEN << >>
    ELSE IF Len(tokens) = 1 THEN tokens[1]
    ELSE tokens[1] \o <<" ">> \o Join(Tail(tokens))

tokens_to_text(tokens) == IF tokens = << >> THEN << >> ELSE Join(tokens)

\* the largest k in 1..max_overlap with committed's last k tokens equal to
\* the first k tokens, 0 when there is none (the descending for loop)
RECURSIVE OverlapFrom(_, _, _)
OverlapFrom(committed, tokens, k) ==
    IF k = 0 THEN 0
    ELSE IF LastN(committed, k) = FirstN(tokens, k) THEN k
    ELSE OverlapFrom(committed, tokens, k - 1)

\* (mutant) the hypothesis is taken whole
strip_nothing(committed, tokens) == tokens

strip_committed_overlap(committed, tokens) ==
    IF committed = << >> \/ tokens = << >>
    THEN tokens
    ELSE LET max_overlap == Min(Len(committed), Len(tokens))
             overlap == OverlapFrom(committed, tokens, max_overlap)
         IN  SubSeq(tokens, overlap + 1, Len(tokens))

RECURSIVE LcpFrom(_, _, _)
LcpFrom(a, b, n) ==
    IF n < Min(Len(a), Len(b)) /\ a[n + 1] = b[n + 1]
    THEN LcpFrom(a, b, n + 1)
    ELSE n

lcp_len(a, b) == LcpFrom(a, b, 0)

\* (mutant) every count goes up, whether or not the token kept its place
new_counts_without_lcp(pending_counts, pending, lcp) ==
    [i \in 1..Len(pending) |->
        (IF i <= Len(pending_counts) THEN pending_counts[i] ELSE 0) + 1]

\* the counts of the new pending tail
new_counts(pending_counts, pending, lcp) ==
    [i \in 1..Len(pending) |->
        IF i - 1 < lcp
        THEN (IF i <= Len(pending_counts) THEN pending_counts[i] ELSE 0) + 1
        ELSE 1]

\* the number of leading counts that are >= stable_required
RECURSIVE CommitLenFrom(_, _, _)
CommitLenFrom(counts, stable_required, n) ==
    IF n < Len(counts) /\ counts[n + 1] >= stable_required
    THEN CommitLenFrom(counts, stable_required, n + 1)
    ELSE n

\* (mutant) a token is committed one call later
commit_len_above(counts, stable_required) == CommitLenFrom(counts, stable_required + 1, 0)

commit_len_of(counts, stable_required) == CommitLenFrom(counts, stable_required, 0)

\* (mutant) the newly stable tokens replace the committed vector
replace_committed(committed, pending, commit_len) ==
    FirstN(pending, commit_len)

\* the committed vector after committing the first commit_len pending tokens
extend_committed(committed, pending, commit_len) ==
    committed \o FirstN(pending, commit_len)

\* Stabilizer::new
Stabilizer_new(stable_required) ==
    [ stable_required |-> Max(stable_required, 1),
      committed       |-> << >>,
      pending_prev    |-> << >>,
      pending_counts  |-> << >> ]

\* Stabilizer::reset
Stabilizer_reset(st) ==
    [st EXCEPT !.committed = << >>, !.pending_prev = << >>, !.pending_counts = << >>]

\* Stabilizer::update: the struct afterwards and the returned pair
Stabilizer_update(st, hypothesis) ==
    LET tokens == tokenize(hypothesis)
    IN  IF tokens = << >>
        THEN [st |-> st, ret |-> <<tokens_to_text(st.committed), << >> >>]
        ELSE LET pending0 == strip_committed_overlap(st.committed, tokens)
                 lcp == lcp_len(st.pending_prev, pending0)
                 counts0 == new_counts(st.pending_counts, pending0, lcp)
                 commit_len == commit_len_of(counts0, st.stable_required)
                 committed == IF commit_len > 0
                              THEN extend_committed(st.committed, pending0, commit_len)
                              ELSE st.committed
                 pending == SubSeq(pending0, commit_len + 1, Len(pending0))
                 counts == SubSeq(counts0, commit_len + 1, Len(counts0))
             IN  [st  |-> [st EXCEPT !.committed = committed,
                                     !.pending_prev = pending,
                                     !.pending_counts = counts],
                  ret |-> <<tokens_to_text(committed), tokens_to_text(pending)>>]

\* (mutant) finalize returns the text and keeps the buffers
finalize_without_reset(st, hypothesis) ==
    [st |-> st, ret |-> tokens_to_text(tokenize(hypothesis))]

\* Stabilizer::finalize: the struct afterwards and the returned text
Stabilizer_finalize(st, hypothesis) ==
    LET tokens == tokenize(hypothesis)
        text == tokens_to_text(tokens)
    IN  [st |-> Stabilizer_reset(st), ret |-> text]

(***************************************************************************)
(* The hypotheses an ASR backend may return: every string of up to          *)
(* MaxHypLen characters over a two-letter alphabet and the space.           *)
(***************************************************************************)
MaxHypLen == 5
MaxCommitted == 2

StableRequiredChoices == 0..3

Alphabet == {"a", " "}

Hypotheses == UNION {[1..n -> Alphabet] : n \in 0..MaxHypLen}

(***************************************************************************)
(* Bookkeeping of the update calls.  A place of the pending tail is counted *)
(* from the start of the committed vector: the i-th token of the tail an    *)
(* update call is left with after the overlap strip is at place             *)
(* Len(committed) + i, so a token keeps its place when the tokens before it *)
(* are committed.  seen holds that tail (base = Len(committed) at the call) *)
(* and, for each token, the number of update calls in a row, this one       *)
(* included, that had the same token at the same place, counted up to       *)
(* RunCap.  An update call with an empty hypothesis has an empty tail.      *)
(* The bookkeeping is kept by the scripted runs.                            *)
(***************************************************************************)
SeenNone == [base |-> 0, toks |-> << >>, runs |-> << >>]

RunCap == CHOOSE n \in StableRequiredChoices : \A m \in StableRequiredChoices : m <= n

SeenAfter(prev, committed, hypothesis) ==
    LET pending == strip_committed_overlap(committed, tokenize(hypothesis))
        base == Len(committed)
        at(i) == base + i - prev.base
    IN  [ base |-> base,
          toks |-> pending,
          runs |-> [i \in 1..Len(pending) |->
                      IF at(i) \in 1..Len(prev.toks) /\ prev.toks[at(i)] = pending[i]
                      THEN Min(prev.runs[at(i)] + 1, RunCap)
                      ELSE 1] ]

(***************************************************************************)
(* The transcription worker (src/src/app.rs, start_engine).  An event on    *)
(* the event queue is a record [kind, id]: id numbers the events in the     *)
(* order the segmenter returned them and stands for the audio a Partial or  *)
(* a Final carries.  A text is a string as above.                           *)
(***************************************************************************)
Ev(kind, id) == [kind |-> kind, id |-> id]
NoEvent == Ev("None", 0)

CaptionUpdate(text, is_final) == [kind |-> "Update", text |-> text, is_final |-> is_final]
CaptionClear == [kind |-> "Clear", text |-> << >>, is_final |-> FALSE]
NoCaption == [kind |-> "None", text |-> << >>, is_final |-> FALSE]

\* str::trim
RECURSIVE trim_start(_)
trim_start(s) == IF s # << >> /\ IsSpace(s[1]) THEN trim_start(Tail(s)) ELSE s

RECURSIVE trim_end(_)
trim_end(s) ==
    IF s # << >> /\ IsSpace(s[Len(s)]) THEN trim_end(SubSeq(s, 1, Len(s) - 1)) ELSE s

trim(s) == trim_end(trim_start(s))

\* combine_committed_partial
combine_committed_partial(committed, partial) ==
    LET c == trim(committed) = << >>
        q == trim(partial) = << >>
    IN  IF c /\ q THEN << >>
        ELSE IF q THEN trim(committed)
        ELSE IF c THEN trim(partial)
        ELSE trim(committed) \o <<" ">> \o trim(partial)

\* Sender::try_send on a queue of capacity cap: the queue afterwards and
\* whether the message was placed
try_send(queue, cap, msg) ==
    IF Len(queue) < cap
    THEN [queue |-> Append(queue, msg), ok |-> TRUE]
    ELSE [queue |-> queue, ok |-> FALSE]

\* the worker's locals at the start of the thread
WorkerStart == [pc |-> "top", event |-> NoEvent, last_caption |-> << >>, last_final |-> TRUE]

\* the record of an iteration that has taken first off the event queue and
\* every event of taken since
IterOf(first, backlog) ==
    [ taken   |-> IF first = NoEvent THEN << >> ELSE <<first>>,
      backlog |-> backlog,     \* what recv_timeout left on the event queue
      handled |-> NoEvent,     \* the event the match has handled
      result  |-> "none",      \* "ok" or "err": what transcribe returned
      text    |-> << >>,       \* the text of an "ok"
      display |-> << >>,       \* the text the match had for the caption
      calls   |-> << >>,       \* the transcribe calls: [id, is_partial]
      sends   |-> << >>,       \* the try_send calls on the caption queue:
                               \* [msg, ok, warned] (warned: a warning was logged)
      before  |-> NoCaption,   \* the last CaptionEvent placed before the match
      update  |-> NoCaption ]  \* the last Update placed before the match

HistNone ==
    [ placed  |-> NoCaption,   \* the last CaptionEvent placed on the caption queue
      update  |-> NoCaption,   \* the last Update placed on the caption queue
      queued  |-> {},          \* the events placed on the event queue
      starts  |-> {},          \* ids of the events that begin an utterance,
                               \* placed or dropped
      decoded |-> {},          \* ids of the events given to transcribe
      handled |-> << >> ]      \* ids of the events the match has handled, in order

\* the threads of the engine before start_engine is called
SupStart(cli) == [cli |-> cli, ret |-> "none", join |-> "no"]

(***************************************************************************)
(* The 3:1 decimator of the audio callback (src/src/macos_capture.rs).  A   *)
(* sample is a whole number of a unit a third of which is still a whole     *)
(* number, so that acc / 3.0 is exact.                                      *)
(***************************************************************************)
\* Decimator3::new
Decimator3_new == [phase |-> 0, acc |-> 0]

\* (mutant) the accumulator is not cleared after an output
Decimator3_push_keeps_acc(dec, sample) ==
    LET acc == dec.acc + sample
        phase == dec.phase + 1
    IN  IF phase = 3
        THEN [dec |-> [phase |-> 0, acc |-> acc], out |-> <<acc \div 3>>]
        ELSE [dec |-> [phase |-> phase, acc |-> acc], out |-> << >>]

\* Decimator3::push: the struct afterwards and the output, if any
Decimator3_push(dec, sample) ==
    LET acc == dec.acc + sample
        phase == dec.phase + 1
    IN  IF phase = 3
        THEN [dec |-> [phase |-> 0, acc |-> 0], out |-> <<acc \div 3>>]
        ELSE [dec |-> [phase |-> phase, acc |-> acc], out |-> << >>]

\* push_interleaved with channels = 1: every sample goes through push
RECURSIVE push_interleaved(_, _)
push_interleaved(dec, mono) ==
    IF mono = << >>
    THEN [dec |-> dec, out |-> << >>]
    ELSE LET r == Decimator3_push(dec, Head(mono))
             rest == push_interleaved(r.dec, Tail(mono))
         IN  [dec |-> rest.dec, out |-> r.out \o rest.out]

\* decode_and_resample_16k_mono for a buffer of the mono samples: a buffer
\* that fails to decode returns Err before any sample is pushed
decode_and_resample_16k_mono(dec, mono, well_formed) ==
    IF well_formed
    THEN LET r == push_interleaved(dec, mono)
         IN  [ok |-> TRUE, dec |-> r.dec, out |-> r.out]
    ELSE [ok |-> FALSE, dec |-> dec, out |-> << >>]

\* the threads the stream may call the handler on
CallbackThreads == {"cb1", "cb2"}

\* a call of did_output_sample_buffer: not in progress, "warn" before the
\* swap of warned_decode_error, or "send" before the try_send of out
NoCallback == [pc |-> "none", out |-> << >>]

CaptureStart(rate_ok) ==
    [ pc      |-> "idle",     \* "init", "run" or "done" once spawned
      decimator |-> Decimator3_new,
      emitted |-> << >>,      \* every sample the decimator has put out
      warnings |-> 0,         \* decode warnings logged
      calls   |-> [t \in CallbackThreads |-> NoCallback],
      rate_ok |-> rate_ok,    \* the source delivers audio at 48 kHz
      fed     |-> 0,          \* sample buffers the stream has delivered
      placed  |-> 0,          \* chunks placed on the audio queue
      warned_decode_error |-> FALSE,
      failed  |-> FALSE ]     \* capture_thread_main returned an error

ProcStart == [pc |-> "idle", left |-> 0]

NoSendYet == [site |-> "none", ok |-> TRUE, warned |-> FALSE]

EngineIdle ==
    /\ audio_q = << >>
    /\ capture = CaptureStart(TRUE)
    /\ proc = ProcStart
    /\ sup = SupStart([streaming |-> TRUE, engine |-> "Local"])
    /\ last_send = NoSendYet

WorkerIdle ==
    /\ EngineIdle
    /\ event_q = << >>
    /\ caption_q = << >>
    /\ worker = WorkerStart
    /\ producer = [alive |-> FALSE, streaming |-> TRUE, next_id |-> 1, partials |-> FALSE]
    /\ stop = FALSE
    /\ iter = IterOf(NoEvent, << >>)
    /\ hist = HistNone

(***************************************************************************)
(* Specification of the segmenter fed by the audio source                   *)
(***************************************************************************)
StabIdle ==
    /\ stab = Stabilizer_new(1)
    /\ op = "new"
    /\ ret = << >>
    /\ finalized = << >>
    /\ seen = SeenNone
    /\ calls = << >>

SegFresh(cfg, stream) ==
    /\ seg = new(cfg)
    /\ input = stream
    /\ fed = 0
    /\ events = << >>
    /\ onsets = << >>
    /\ frames_done = 0

InitSeg ==
    /\ \E cfg \in Configs, amps \in [1..MaxFrames -> FrameAmps] :
          SegFresh(cfg, MkStream(amps, new(cfg).frame_size))
    /\ StabIdle
    /\ WorkerIdle

\* one call of push_audio with the next n samples of the stream
PushAudio(n) ==
    /\ n <= Len(input) - fed
    /\ LET r == push_audio(seg, SubSeq(input, fed + 1, fed + n), frames_done)
       IN  /\ seg' = r.seg
           /\ events' = events \o r.out
           /\ onsets' = onsets \o r.onsets
           /\ frames_done' = r.nframes
    /\ fed' = fed + n
    /\ UNCHANGED <<input, stabVars, workerVars, engineVars>>

NextSeg == \E n \in ChunkSizes : PushAudio(n)

SpecSeg == InitSeg /\ [][NextSeg]_vars

(***************************************************************************)
(* Specification of the segmenter with a pre-roll longer than the longest   *)
(* segment                                                                  *)
(***************************************************************************)
LongPreRollMs == 3 * FrameMs

LongPreRollConfigs ==
    {[cfg EXCEPT !.pre_roll_ms = LongPreRollMs] : cfg \in {c \in Configs : c.max_segment_ms < LongPreRollMs}}

InitSegLongPreRoll ==
    /\ \E cfg \in LongPreRollConfigs, amps \in [1..MaxFrames -> FrameAmps] :
          SegFresh(cfg, MkStream(amps, new(cfg).frame_size))
    /\ StabIdle
    /\ WorkerIdle

SpecSegLongPreRoll == InitSegLongPreRoll /\ [][NextSeg]_vars

(***************************************************************************)
(* Specification of the segmenter around the compaction of its stash: the   *)
(* segmenter has been pushed a quiet lead that ends a few frames before the *)
(* stash cursor passes CompactFrames frames, and is then pushed MaxFrames   *)
(* frames, each quiet or loud, in chunks of the same sizes.                 *)
(***************************************************************************)
LeadFrames == CompactFrames - 3

LeadStream(amps, frame_size) == MkStream(Frames(LeadFrames, QuietAmp) \o amps, frame_size)

\* the configurations with a Partial every frame and the whole utterance
\* as its window
CompactConfigs == {cfg \in Configs : cfg.asr_step_ms <= FrameMs /\ cfg.max_window_ms = 0}

InitSegCompact ==
    /\ \E cfg \in CompactConfigs, amps \in [1..MaxFrames -> FrameAmps] :
         \E stream \in {LeadStream(amps, new(cfg).frame_size)} :
         \E lead \in {LeadFrames * new(cfg).frame_size} :
         \E r \in {push_audio(new(cfg), SubSeq(stream, 1, lead), 0)} :
            /\ seg = r.seg
            /\ input = stream
            /\ fed = lead
            /\ events = r.out
            /\ onsets = r.onsets
            /\ frames_done = r.nframes
    /\ StabIdle
    /\ WorkerIdle

SpecSegCompact == InitSegCompact /\ [][NextSeg]_vars

(***************************************************************************)
(* Specification of the stabilizer driven by arbitrary hypotheses           *)
(***************************************************************************)
SegIdle == SegFresh(DefaultCfg, << >>)

InitStab ==
    /\ \E n \in StableRequiredChoices : stab = Stabilizer_new(n)
    /\ op = "new"
    /\ ret = << >>
    /\ finalized = << >>
    /\ seen = SeenNone
    /\ calls = << >>
    /\ SegIdle
    /\ WorkerIdle

Update(h) ==
    /\ Len(stab.committed) < MaxCommitted
    /\ LET r == Stabilizer_update(stab, h)
       IN  /\ stab' = r.st
           /\ ret' = r.ret
    /\ op' = "update"
    /\ finalized' = << >>
    /\ UNCHANGED <<seen, calls, segVars, workerVars, engineVars>>

Finalize(h) ==
    /\ LET r == Stabilizer_finalize(stab, h)
       IN  /\ stab' = r.st
           /\ ret' = r.ret
    /\ op' = "finalize"
    /\ finalized' = h
    /\ UNCHANGED <<seen, calls, segVars, workerVars, engineVars>>

ResetStab ==
    /\ stab' = Stabilizer_reset(stab)
    /\ ret' = << >>
    /\ op' = "reset"
    /\ finalized' = << >>
    /\ UNCHANGED <<seen, calls, segVars, workerVars, engineVars>>

NextStab ==
    \/ \E h \in Hypotheses : Update(h)
    \/ \E h \in Hypotheses : Finalize(h)
    \/ ResetStab

SpecStab == InitStab /\ [][NextStab]_vars

(***************************************************************************)
(* Specification of the scripted stabilizer runs: a freshly constructed     *)
(* stabilizer is given up to MaxCalls update calls, each with one of the    *)
(* hypotheses of the documented scenarios or a blank one, and every call is *)
(* recorded with the struct it left and the pair it returned.               *)
(***************************************************************************)
MaxCalls == 5

Space == <<" ">>
Hello == <<"h", "e", "l", "l", "o">>
Wor == <<"w", "o", "r">>
World == <<"w", "o", "r", "l", "d">>
Today == <<"t", "o", "d", "a", "y">>
TokA == <<"A">>
TokB == <<"B">>
TokC == <<"C">>
TokD == <<"D">>

HelloWor == Hello \o Space \o Wor
HelloWorld == Hello \o Space \o World
HelloWorldToday == Hello \o Space \o World \o Space \o Today
TextA == TokA
TextABC == TokA \o Space \o TokB \o Space \o TokC
TextBCD == TokB \o Space \o TokC \o Space \o TokD
TextBC == TokB \o Space \o TokC
TextBlank == Space

ScriptHypotheses ==
    {HelloWor, HelloWorld, HelloWorldToday, TextA, TextABC, TextBCD, TextBlank}

InitScript ==
    /\ \E n \in StableRequiredChoices : stab = Stabilizer_new(n)
    /\ op = "new"
    /\ ret = << >>
    /\ finalized = << >>
    /\ seen = SeenNone
    /\ calls = << >>
    /\ SegIdle
    /\ WorkerIdle

\* one recorded update call
Say(h) ==
    /\ Len(calls) < MaxCalls
    /\ LET r == Stabilizer_update(stab, h)
       IN  /\ stab' = r.st
           /\ ret' = r.ret
           /\ calls' = Append(calls, [h |-> h, st |-> r.st, ret |-> r.ret])
    /\ op' = "update"
    /\ finalized' = << >>
    /\ seen' = SeenAfter(seen, stab.committed, h)
    /\ UNCHANGED <<segVars, workerVars, engineVars>>

NextScript == \E h \in ScriptHypotheses : Say(h)

SpecScript == InitScript /\ [][NextScript]_vars

(***************************************************************************)
(* Specification of the end-to-end scenarios: every option at its default,  *)
(* fed one of the scenario streams in chunks of half a frame or one frame,  *)
(* or whole.  The streams are built at 1 kHz, a sixteenth of the 16 kHz rate: *)
(* every sample count StreamingSegmenter::new derives at 16 kHz is exactly  *)
(* sixteen times the count it derives at the scenario rate                  *)
(* (ScenarioScaleExact), and the frame counts are the same, so a stream of  *)
(* constant-amplitude frames is segmented at the same frames and every      *)
(* length is one sixteenth of its 16 kHz value.                             *)
(***************************************************************************)
ScenarioCfg == [DefaultCfg EXCEPT !.sample_rate_hz = 1000]

ScenarioScale == DefaultSampleRateHz \div ScenarioCfg.sample_rate_hz

ScenarioFrameSize == new(ScenarioCfg).frame_size

ScenarioScaleExact ==
    LET d == new(DefaultCfg)
        c == new(ScenarioCfg)
    IN  /\ d.frame_size = ScenarioScale * c.frame_size
        /\ d.end_silence_frames = c.end_silence_frames
        /\ d.min_speech_samples = ScenarioScale * c.min_speech_samples
        /\ d.max_segment_samples = ScenarioScale * c.max_segment_samples
        /\ d.pre_roll_samples = ScenarioScale * c.pre_roll_samples
        /\ d.asr_step_samples = ScenarioScale * c.asr_step_samples
        /\ d.max_window_samples = ScenarioScale * c.max_window_samples

\* ms milliseconds of audio of amplitude a, in whole frames
Audio(ms, a) == Frames(ms \div FrameMs, a)

\* 100 ms of voiced audio, then 1 s of unvoiced audio
BlipStream ==
    MkStream(Audio(100, LoudAmp) \o Audio(1000, QuietAmp), ScenarioFrameSize)

\* 200 ms unvoiced, 1.5 s voiced, 800 ms unvoiced
SingleStream ==
    MkStream(Audio(200, QuietAmp) \o Audio(1500, LoudAmp) \o Audio(800, QuietAmp),
             ScenarioFrameSize)

ScenarioStreams == {BlipStream, SingleStream}

\* half a frame, one frame, or all of a scenario stream in one call
ScenarioChunkSizes ==
    {ScenarioFrameSize \div 2, ScenarioFrameSize}
        \cup {Len(stream) : stream \in ScenarioStreams}

InitScenario ==
    /\ \E stream \in ScenarioStreams : SegFresh(ScenarioCfg, stream)
    /\ StabIdle
    /\ WorkerIdle

NextScenario == \E n \in ScenarioChunkSizes : PushAudio(n)

SpecScenario == InitScenario /\ [][NextScenario]_vars

(***************************************************************************)
(* Specification of the transcription worker between the processing thread  *)
(* and the caption sink.  The processing thread passes on up to MaxEvents   *)
(* events in an order a segmenter can return them (in streaming mode any    *)
(* number of Partials, then a Final, or a Reset where no Partial went       *)
(* before; otherwise Finals only); transcribe returns an error or one of    *)
(* Texts (a text without tokens and two one-word texts); the sink takes     *)
(* captions off the caption queue at its own pace.                          *)
(* The queues have the capacities EventQueueCap and CaptionQueueCap, which  *)
(* stand for the 32 and 64 of the program.  The worker loop is cut at its   *)
(* queue operations: the test of the stop flag, recv_timeout, every         *)
(* try_recv of the coalescing pass, and the match on the event.             *)
(***************************************************************************)
EventQueueCap == 3
CaptionQueueCap == 2
MaxEvents == 4
DefaultPartialStableIters == 2

Texts == {<<" ">>, <<"a">>, <<"b">>}

Ok(text) == [ok |-> TRUE, text |-> text]
Err == [ok |-> FALSE, text |-> << >>]
BackendResults == {Err} \cup {Ok(t) : t \in Texts}

InitWorker ==
    /\ event_q = << >>
    /\ caption_q = << >>
    /\ worker = WorkerStart
    /\ \E streaming \in BOOLEAN :
          producer = [alive |-> TRUE, streaming |-> streaming,
                      next_id |-> 1, partials |-> FALSE]
    /\ stop = FALSE
    /\ iter = IterOf(NoEvent, << >>)
    /\ hist = HistNone
    /\ stab = Stabilizer_new(DefaultPartialStableIters)
    /\ op = "new"
    /\ ret = << >>
    /\ finalized = << >>
    /\ seen = SeenNone
    /\ calls = << >>
    /\ SegIdle
    /\ EngineIdle

\* event_tx.try_send(event) for the next event of the segmenter: a Partial
\* or a Reset only from the streaming segmenter
PassOn(kind) ==
    /\ producer.next_id <= MaxEvents
    /\ kind = "Partial" => producer.streaming
    /\ kind = "Reset" => producer.streaming /\ ~producer.partials
    /\ LET r == try_send(event_q, EventQueueCap, Ev(kind, producer.next_id))
       IN  /\ event_q' = r.queue
           /\ hist' = [hist EXCEPT
                          !.queued = IF r.ok THEN @ \cup {Ev(kind, producer.next_id)}
                                     ELSE @,
                          !.starts = IF producer.partials THEN @
                                     ELSE @ \cup {producer.next_id}]
    /\ producer' = [producer EXCEPT !.next_id = @ + 1,
                                    !.partials = (kind = "Partial")]

\* the processing thread passes an event of the segmenter to the event queue
Emit(kind) ==
    /\ producer.alive
    /\ PassOn(kind)
    /\ UNCHANGED <<caption_q, worker, stop, iter, stabVars, segVars, engineVars>>

\* the processing thread ends and drops event_tx
ProducerExit ==
    /\ producer.alive
    /\ producer' = [producer EXCEPT !.alive = FALSE]
    /\ UNCHANGED <<event_q, caption_q, worker, stop, iter, hist, stabVars, segVars,
                   engineVars>>

\* EngineHandle::stop_and_join sets the stop flag
SetStop ==
    /\ ~stop
    /\ stop' = TRUE
    /\ UNCHANGED <<event_q, caption_q, worker, producer, iter, hist, stabVars,
                   segVars, engineVars>>

\* the sink takes a caption off the caption queue
CaptionRecv ==
    /\ caption_q # << >>
    /\ caption_q' = Tail(caption_q)
    /\ UNCHANGED <<event_q, worker, producer, stop, iter, hist, stabVars, segVars,
                   engineVars>>

\* (mutant) the loop never looks at the stop flag
loop_test_ignores_stop(stop_flag) == "recv"

\* the position after the loop test with the flag as loaded
loop_test(stop_flag) == IF stop_flag THEN "done" ELSE "recv"

\* while !stop_transcribe.load(..)
WorkerTop ==
    /\ worker.pc = "top"
    /\ worker' = [worker EXCEPT !.pc = loop_test(stop)]
    /\ UNCHANGED <<event_q, caption_q, producer, stop, iter, hist, stabVars,
                   segVars, engineVars>>

\* event_rx.recv_timeout(50 ms): an event, Timeout or Disconnected
WorkerRecv ==
    /\ worker.pc = "recv"
    /\ IF event_q # << >>
       THEN /\ worker' = [worker EXCEPT
                            !.event = Head(event_q),
                            !.pc = IF Head(event_q).kind = "Partial"
                                   THEN "coalesce" ELSE "handle"]
            /\ event_q' = Tail(event_q)
            /\ iter' = IterOf(Head(event_q), Tail(event_q))
       ELSE /\ worker' = [worker EXCEPT !.pc = IF producer.alive THEN "top" ELSE "done"]
            /\ UNCHANGED <<event_q, iter>>
    /\ UNCHANGED <<caption_q, producer, stop, hist, stabVars, segVars, engineVars>>

\* (mutant) a queued Final is dropped in favour of the event in hand
coalesced_skips_final(event, next) ==
    IF next.kind = "Final" THEN event ELSE next

\* (mutant) a queued Partial is dropped in favour of the one in hand
coalesced_keeps_oldest(event, next) ==
    IF next.kind = "Partial" THEN event ELSE next

\* the event in hand after try_recv has returned next
coalesced(event, next) == next

\* one turn of the while let Ok(next) = event_rx.try_recv() loop
WorkerCoalesce ==
    /\ worker.pc = "coalesce"
    /\ IF event_q # << >>
       THEN /\ worker' = [worker EXCEPT
                            !.event = coalesced(worker.event, Head(event_q)),
                            !.pc = IF Head(event_q).kind = "Partial"
                                   THEN "coalesce" ELSE "handle"]
            /\ event_q' = Tail(event_q)
            /\ iter' = [iter EXCEPT !.taken = Append(@, Head(event_q))]
       ELSE /\ worker' = [worker EXCEPT !.pc = "handle"]
            /\ UNCHANGED <<event_q, iter>>
    /\ UNCHANGED <<caption_q, producer, stop, hist, stabVars, segVars, engineVars>>

\* maybe_send_update: the caption queue and the two locals afterwards, and
\* the try_send calls made
maybe_send_update(queue, last_caption, last_final, text, is_final) ==
    IF text # last_caption \/ is_final # last_final
    THEN LET msg == CaptionUpdate(text, is_final)
             r == try_send(queue, CaptionQueueCap, msg)
         IN  [queue |-> r.queue, last_caption |-> text, last_final |-> is_final,
              sends |-> <<[msg |-> msg, ok |-> r.ok, warned |-> ~r.ok]>>]
    ELSE [queue |-> queue, last_caption |-> last_caption, last_final |-> last_final,
          sends |-> << >>]

\* (mutant) a failed transcription clears the caption
transcription_failed_clears(queue, last_caption, last_final) ==
    LET r == try_send(queue, CaptionQueueCap, CaptionClear)
    IN  [queue |-> r.queue, last_caption |-> << >>, last_final |-> TRUE,
         sends |-> <<[msg |-> CaptionClear, ok |-> r.ok, warned |-> FALSE]>>]

\* the Reset arm on the caption queue and the two locals
clear_caption(queue, last_caption, last_final) ==
    IF last_caption # << >>
    THEN LET r == try_send(queue, CaptionQueueCap, CaptionClear)
         IN  [queue |-> r.queue, last_caption |-> << >>, last_final |-> TRUE,
              sends |-> <<[msg |-> CaptionClear, ok |-> r.ok, warned |-> FALSE]>>]
    ELSE [queue |-> queue, last_caption |-> last_caption, last_final |-> last_final,
          sends |-> << >>]

\* the Err(err) arm of a transcribe match: a warning, nothing else
transcription_failed(queue, last_caption, last_final) ==
    [queue |-> queue, last_caption |-> last_caption, last_final |-> last_final,
     sends |-> << >>]

\* the bookkeeping after the try_send calls of one match
HistAfter(h, event, decoded, sends) ==
    LET placed == SelectSeq(sends, LAMBDA x : x.ok)
        last == IF placed = << >> THEN NoCaption ELSE placed[Len(placed)].msg
    IN  [h EXCEPT !.handled = Append(@, event.id),
                  !.decoded = IF decoded THEN @ \cup {event.id} ELSE @,
                  !.placed = IF last = NoCaption THEN @ ELSE last,
                  !.update = IF last.kind = "Update" THEN last ELSE @]

\* the end of a match arm: m is what became of the caption queue and locals
EndMatch(m, res, is_partial, display) ==
    /\ caption_q' = m.queue
    /\ worker' = [pc |-> "top", event |-> NoEvent,
                  last_caption |-> m.last_caption, last_final |-> m.last_final]
    /\ iter' = [iter EXCEPT
                  !.handled = worker.event,
                  !.result = IF worker.event.kind = "Reset" THEN "none"
                             ELSE IF res.ok THEN "ok" ELSE "err",
                  !.text = res.text,
                  !.display = display,
                  !.calls = IF worker.event.kind = "Reset" THEN << >>
                            ELSE <<[id |-> worker.event.id, is_partial |-> is_partial]>>,
                  !.sends = m.sends,
                  !.before = hist.placed,
                  !.update = hist.update]
    /\ hist' = HistAfter(hist, worker.event, worker.event.kind # "Reset", m.sends)
    /\ UNCHANGED <<event_q, producer, stop, seen, calls, segVars, engineVars>>

\* the caption queue and locals left alone
NoSend == [queue |-> caption_q, last_caption |-> worker.last_caption,
           last_final |-> worker.last_final, sends |-> << >>]

\* StreamingEvent::Partial(audio) => ..  (the locals of the arm are bound
\* once, as values)
HandlePartial(res) ==
    /\ worker.pc = "handle"
    /\ worker.event.kind = "Partial"
    /\ IF res.ok
       THEN \E r \in {Stabilizer_update(stab, res.text)} :
            \E display \in {combine_committed_partial(r.ret[1], r.ret[2])} :
            \E m \in {maybe_send_update(caption_q, worker.last_caption,
                                        worker.last_final, display, FALSE)} :
                /\ stab' = r.st
                /\ op' = "update"
                /\ ret' = r.ret
                /\ finalized' = << >>
                /\ EndMatch(m, res, TRUE, display)
       ELSE /\ UNCHANGED <<stab, op, ret, finalized>>
            /\ EndMatch(transcription_failed(caption_q, worker.last_caption,
                                             worker.last_final),
                        res, TRUE, << >>)

\* StreamingEvent::Final(audio) => ..
HandleFinal(res) ==
    /\ worker.pc = "handle"
    /\ worker.event.kind = "Final"
    /\ IF res.ok
       THEN \E r \in {Stabilizer_finalize(stab, res.text)} :
            \E final_text \in {r.ret} :
            \E m \in {IF trim(final_text) # << >>
                      THEN maybe_send_update(caption_q, worker.last_caption,
                                             worker.last_final, final_text, TRUE)
                      ELSE NoSend} :
                /\ stab' = r.st
                /\ op' = "finalize"
                /\ ret' = r.ret
                /\ finalized' = res.text
                /\ EndMatch(m, res, FALSE, final_text)
       ELSE /\ UNCHANGED <<stab, op, ret, finalized>>
            /\ EndMatch(transcription_failed(caption_q, worker.last_caption,
                                             worker.last_final),
                        res, FALSE, << >>)

\* StreamingEvent::Reset => ..
HandleReset ==
    /\ worker.pc = "handle"
    /\ worker.event.kind = "Reset"
    /\ stab' = Stabilizer_reset(stab)
    /\ op' = "reset"
    /\ ret' = << >>
    /\ finalized' = << >>
    /\ EndMatch(clear_caption(caption_q, worker.last_caption, worker.last_final),
                Err, FALSE, << >>)

NextWorker ==
    \/ \E kind \in {"Partial", "Final", "Reset"} : Emit(kind)
    \/ ProducerExit
    \/ SetStop
    \/ CaptionRecv
    \/ WorkerTop
    \/ WorkerRecv
    \/ WorkerCoalesce
    \/ \E res \in BackendResults : HandlePartial(res)
    \/ \E res \in BackendResults : HandleFinal(res)
    \/ HandleReset

SpecWorker == InitWorker /\ [][NextWorker]_vars

\* the transcription thread is scheduled, and transcribe returns
WorkerFairness ==
    /\ WF_vars(WorkerTop)
    /\ WF_vars(WorkerRecv)
    /\ WF_vars(WorkerCoalesce)
    /\ WF_vars(\E res \in BackendResults : HandlePartial(res))
    /\ WF_vars(\E res \in BackendResults : HandleFinal(res))
    /\ WF_vars(HandleReset)

SpecWorkerFair == SpecWorker /\ WorkerFairness

(***************************************************************************)
(* Specification of the engine: start_engine, the capture thread with the   *)
(* audio callback of its stream, the processing thread, the transcription   *)
(* thread, the sink and stop_and_join.  The stream delivers up to           *)
(* MaxBuffers sample buffers; a chunk taken off the audio queue makes the   *)
(* segmenter return up to MaxPerChunk events; AudioQueueCap stands for the  *)
(* 256 of the program.  The texts of the backend do not matter here:        *)
(* transcribe returns an error or one text.                                 *)
(***************************************************************************)
AudioQueueCap == 1
MaxBuffers == 2
MaxPerChunk == 2

Engines == {"Local", "OpenAI"}

EngineResults == {Err, Ok(<<"a">>)}

\* (mutant) Partials for every engine
streaming_enabled_any_engine(cli) == cli.streaming

\* let streaming_enabled = cli.streaming && matches!(cli.engine, Engine::Local)
streaming_enabled(cli) == cli.streaming /\ cli.engine = "Local"

InitEngine ==
    /\ event_q = << >>
    /\ caption_q = << >>
    /\ worker = [WorkerStart EXCEPT !.pc = "idle"]
    /\ producer = [alive |-> TRUE, streaming |-> FALSE, next_id |-> 1, partials |-> FALSE]
    /\ stop = FALSE
    /\ iter = IterOf(NoEvent, << >>)
    /\ hist = HistNone
    /\ stab = Stabilizer_new(DefaultPartialStableIters)
    /\ op = "new"
    /\ ret = << >>
    /\ finalized = << >>
    /\ seen = SeenNone
    /\ calls = << >>
    /\ SegIdle
    /\ audio_q = << >>
    /\ \E rate_ok \in BOOLEAN : capture = CaptureStart(rate_ok)
    /\ proc = ProcStart
    /\ \E streaming \in BOOLEAN, engine \in Engines :
          sup = SupStart([streaming |-> streaming, engine |-> engine])
    /\ last_send = NoSendYet

\* start_engine: the processing thread is spawned, the backend is
\* initialised (an error returns from start_engine and drops audio_tx and
\* event_rx), the capture thread and the transcription thread are spawned
StartEngine(backend_ok) ==
    /\ sup.ret = "none"
    /\ proc' = [proc EXCEPT !.pc = "top"]
    /\ producer' = [producer EXCEPT !.streaming = streaming_enabled(sup.cli)]
    /\ IF backend_ok
       THEN /\ capture' = [capture EXCEPT !.pc = "init"]
            /\ worker' = [worker EXCEPT !.pc = "top"]
            /\ sup' = [sup EXCEPT !.ret = "ok"]
       ELSE /\ sup' = [sup EXCEPT !.ret = "err"]
            /\ UNCHANGED <<capture, worker>>
    /\ UNCHANGED <<event_q, caption_q, stop, iter, hist, audio_q, last_send,
                   stabVars, segVars>>

\* every Sender of the audio queue has been dropped
AudioDisconnected == sup.ret = "err" \/ capture.pc = "done"

\* capture_thread_main up to "capture started": an error is logged by the
\* thread, which sets the stop flag and ends
CaptureInit(ok) ==
    /\ capture.pc = "init"
    /\ IF ok
       THEN /\ capture' = [capture EXCEPT !.pc = "run"]
            /\ UNCHANGED stop
       ELSE /\ capture' = [capture EXCEPT !.pc = "done", !.failed = TRUE]
            /\ stop' = TRUE
    /\ UNCHANGED <<event_q, caption_q, worker, producer, iter, hist, audio_q, proc,
                   sup, last_send, stabVars, segVars>>

\* AudioHandler::did_output_sample_buffer for one audio sample buffer: out is
\* what decode_and_resample_16k_mono returns for a buffer at 48 kHz
CaptureCallback(out) ==
    /\ capture.pc = "run"
    /\ capture.fed < MaxBuffers
    /\ IF ~capture.rate_ok
       THEN /\ capture' = [capture EXCEPT
                              !.fed = @ + 1,
                              !.warned_decode_error = TRUE,
                              !.warnings = IF capture.warned_decode_error
                                           THEN @ ELSE @ + 1]
            /\ UNCHANGED <<audio_q, last_send>>
       ELSE IF out = "empty"
       THEN /\ capture' = [capture EXCEPT !.fed = @ + 1]
            /\ UNCHANGED <<audio_q, last_send>>
       ELSE LET r == try_send(audio_q, AudioQueueCap, capture.fed + 1)
            IN  /\ audio_q' = r.queue
                /\ capture' = [capture EXCEPT !.fed = @ + 1,
                                              !.placed = IF r.ok THEN @ + 1 ELSE @]
                /\ last_send' = [site |-> "audio", ok |-> r.ok, warned |-> FALSE]
    /\ UNCHANGED <<event_q, caption_q, worker, producer, stop, iter, hist, proc, sup,
                   stabVars, segVars>>

\* while !stop.load(..) { sleep } of the capture thread, left on stop
CaptureLoop ==
    /\ capture.pc = "run"
    /\ stop
    /\ capture' = [capture EXCEPT !.pc = "done"]
    /\ UNCHANGED <<event_q, caption_q, worker, producer, stop, iter, hist, audio_q,
                   proc, sup, last_send, stabVars, segVars>>

\* while !stop_processing.load(..)
ProcTop ==
    /\ proc.pc = "top"
    /\ proc' = [proc EXCEPT !.pc = IF stop THEN "done" ELSE "recv"]
    /\ producer' = [producer EXCEPT !.alive = ~stop]
    /\ UNCHANGED <<event_q, caption_q, worker, stop, iter, hist, audio_q, capture,
                   sup, last_send, stabVars, segVars>>

\* (mutant) a disconnected queue is taken for an empty one
after_recv_error_continues(disconnected) == "top"

\* Err(Timeout) => continue, Err(Disconnected) => break
after_recv_error(disconnected) == IF disconnected THEN "done" ELSE "top"

\* audio_rx.recv_timeout(50 ms): a chunk, for which push_audio returns n
\* events, or Timeout, or Disconnected
ProcRecv ==
    /\ proc.pc = "recv"
    /\ IF audio_q # << >>
       THEN /\ audio_q' = Tail(audio_q)
            /\ \E n \in 0..Min(MaxPerChunk, MaxEvents + 1 - producer.next_id) :
                  proc' = [pc |-> IF n = 0 THEN "top" ELSE "emit", left |-> n]
            /\ UNCHANGED producer
       ELSE /\ proc' = [proc EXCEPT !.pc = after_recv_error(AudioDisconnected)]
            /\ producer' = [producer EXCEPT
                               !.alive = after_recv_error(AudioDisconnected) # "done"]
            /\ UNCHANGED audio_q
    /\ UNCHANGED <<event_q, caption_q, worker, stop, iter, hist, capture, sup,
                   last_send, stabVars, segVars>>

\* (mutant) the processing thread waits for room on the event queue
proc_may_send_blocking(queue) == Len(queue) < EventQueueCap

\* try_send returns at once, whatever the queue holds
proc_may_send(queue) == TRUE

\* one turn of the for loop over the events push_audio returned
ProcEmit(kind) ==
    /\ proc.pc = "emit"
    /\ proc_may_send(event_q)
    /\ PassOn(kind)
    /\ LET ok == try_send(event_q, EventQueueCap, Ev(kind, producer.next_id)).ok
       IN  last_send' = [site |-> "event", ok |-> ok, warned |-> ~ok]
    /\ proc' = [pc |-> IF proc.left = 1 THEN "top" ELSE "emit", left |-> proc.left - 1]
    /\ UNCHANGED <<caption_q, worker, stop, iter, audio_q, capture, sup, stabVars,
                   segVars>>

\* EngineHandle::stop_and_join: the stop flag is set
StopAndJoin ==
    /\ sup.ret = "ok"
    /\ sup.join = "no"
    /\ stop' = TRUE
    /\ sup' = [sup EXCEPT !.join = "capture"]
    /\ UNCHANGED <<event_q, caption_q, worker, producer, iter, hist, audio_q, capture,
                   proc, last_send, stabVars, segVars>>

\* the three join calls of stop_and_join, in their order
JoinThreads ==
    /\ \/ /\ sup.join = "capture"
          /\ capture.pc = "done"
          /\ sup' = [sup EXCEPT !.join = "processing"]
       \/ /\ sup.join = "processing"
          /\ proc.pc = "done"
          /\ sup' = [sup EXCEPT !.join = "transcription"]
       \/ /\ sup.join = "transcription"
          /\ worker.pc = "done"
          /\ sup' = [sup EXCEPT !.join = "returned"]
    /\ UNCHANGED <<event_q, caption_q, worker, producer, stop, iter, hist, audio_q,
                   capture, proc, last_send, stabVars, segVars>>

NextEngine ==
    \/ \E backend_ok \in BOOLEAN : StartEngine(backend_ok)
    \/ \E ok \in BOOLEAN : CaptureInit(ok)
    \/ \E out \in {"chunk", "empty"} : CaptureCallback(out)
    \/ CaptureLoop
    \/ ProcTop
    \/ ProcRecv
    \/ \E kind \in {"Partial", "Final", "Reset"} : ProcEmit(kind)
    \/ WorkerTop
    \/ WorkerRecv
    \/ WorkerCoalesce
    \/ \E res \in EngineResults : HandlePartial(res)
    \/ \E res \in EngineResults : HandleFinal(res)
    \/ HandleReset
    \/ CaptionRecv
    \/ StopAndJoin
    \/ JoinThreads

SpecEngine == InitEngine /\ [][NextEngine]_vars

\* the processing thread is scheduled; nothing is assumed of the other
\* threads, so a transcribe call may take for ever
ProcFairness ==
    /\ WF_vars(ProcTop)
    /\ WF_vars(ProcRecv)
    /\ WF_vars(\E kind \in {"Partial", "Final", "Reset"} : ProcEmit(kind))

SpecEngineProcFair == SpecEngine /\ ProcFairness

\* every thread of the engine is scheduled, transcribe returns, and the
\* join calls return once their thread has ended; nothing is assumed of the
\* audio source, of the sink, or of the callers of start_engine and
\* stop_and_join
EngineFairness ==
    /\ WF_vars(\E ok \in BOOLEAN : CaptureInit(ok))
    /\ WF_vars(CaptureLoop)
    /\ ProcFairness
    /\ WF_vars(WorkerTop)
    /\ WF_vars(WorkerRecv)
    /\ WF_vars(WorkerCoalesce)
    /\ WF_vars(\E res \in EngineResults : HandlePartial(res))
    /\ WF_vars(\E res \in EngineResults : HandleFinal(res))
    /\ WF_vars(HandleReset)
    /\ WF_vars(JoinThreads)

SpecEngineFair == SpecEngine /\ EngineFairness

(***************************************************************************)
(* Specification of the audio handler: the stream calls                     *)
(* did_output_sample_buffer on any of its threads, with the next samples of *)
(* a mono stream at 48 kHz or with a buffer that does not decode; a call is *)
(* cut at the lock of the decimator, the swap of warned_decode_error and    *)
(* the try_send on the audio queue.  The processing thread takes the chunks *)
(* off the audio queue.                                                     *)
(***************************************************************************)
MaxMono == 6
MaxPerCallback == 4

\* a third of a sample is a whole number
MonoAmps == {0, 3}

InitHandler ==
    /\ \E mono \in [1..MaxMono -> MonoAmps] : SegFresh(DefaultCfg, mono)
    /\ StabIdle
    /\ WorkerIdle

\* decode_and_resample_16k_mono in a call on thread t, with the next n
\* samples of the stream or with a buffer that does not decode
CallbackDecode(t, n, well_formed) ==
    /\ capture.calls[t].pc = "none"
    /\ n <= Len(input) - fed
    /\ well_formed \/ n = 0
    /\ LET r == decode_and_resample_16k_mono(capture.decimator,
                                             SubSeq(input, fed + 1, fed + n),
                                             well_formed)
       IN  capture' = [capture EXCEPT
                          !.decimator = r.dec,
                          !.emitted = @ \o r.out,
                          !.calls[t] = IF ~r.ok THEN [pc |-> "warn", out |-> << >>]
                                       ELSE IF r.out = << >> THEN NoCallback
                                       ELSE [pc |-> "send", out |-> r.out]]
    /\ fed' = fed + n
    /\ UNCHANGED <<seg, input, events, onsets, frames_done, audio_q, proc, sup,
                   last_send, stabVars, workerVars>>

\* (mutant) the swap leaves the flag as it was
swapped_keeps(flag) == flag

\* warned_decode_error after swap(true, ..)
swapped(flag) == TRUE

\* if !self.warned_decode_error.swap(true, ..) { warn } return
CallbackWarn(t) ==
    /\ capture.calls[t].pc = "warn"
    /\ capture' = [capture EXCEPT
                      !.warned_decode_error = swapped(@),
                      !.warnings = IF capture.warned_decode_error THEN @ ELSE @ + 1,
                      !.calls[t] = NoCallback]
    /\ UNCHANGED <<audio_q, proc, sup, last_send, stabVars, segVars, workerVars>>

\* let _ = self.tx.try_send(out_16k)
CallbackSend(t) ==
    /\ capture.calls[t].pc = "send"
    /\ LET r == try_send(audio_q, AudioQueueCap, capture.calls[t].out)
       IN  /\ audio_q' = r.queue
           /\ capture' = [capture EXCEPT !.placed = IF r.ok THEN @ + 1 ELSE @,
                                         !.calls[t] = NoCallback]
           /\ last_send' = [site |-> "audio", ok |-> r.ok, warned |-> FALSE]
    /\ UNCHANGED <<proc, sup, stabVars, segVars, workerVars>>

\* audio_rx.recv_timeout(..) of the processing thread returns a chunk
AudioTake ==
    /\ audio_q # << >>
    /\ audio_q' = Tail(audio_q)
    /\ UNCHANGED <<capture, proc, sup, last_send, stabVars, segVars, workerVars>>

NextHandler ==
    \/ \E t \in CallbackThreads, n \in 0..MaxPerCallback, well_formed \in BOOLEAN :
          CallbackDecode(t, n, well_formed)
    \/ \E t \in CallbackThreads : CallbackWarn(t)
    \/ \E t \in CallbackThreads : CallbackSend(t)
    \/ AudioTake

SpecHandler == InitHandler /\ [][NextHandler]_vars

(***************************************************************************)
(* Reading the event history                                                *)
(***************************************************************************)
Kinds(evs) == [i \in 1..Len(evs) |-> evs[i].kind]

CountKind(evs, kind) == Cardinality({i \in 1..Len(evs) : evs[i].kind = kind})

AllFed == fed = Len(input)

Range(f) == {f[i] : i \in 1..Len(f)}

IsPrefix(a, b) == Len(a) <= Len(b) /\ SubSeq(b, 1, Len(a)) = a

IsSuffix(a, b) == Len(a) <= Len(b) /\ LastN(b, Len(a)) = a

Terminating(e) == e.kind \in {"Final", "Reset"}

\* the samples of frames a..b of the stream (frames are numbered from 0)
FramesSamples(a, b) == SubSeq(input, a * seg.frame_size + 1, (b + 1) * seg.frame_size)

\* is frame f of the stream voiced: the streams are made of frames of one
\* amplitude, whose rms is that amplitude
FrameVoiced(f) ==
    \A i \in (f * seg.frame_size + 1)..((f + 1) * seg.frame_size) :
        input[i].amp >= seg.cfg.vad_threshold

\* the duration ms in samples at the segmenter's rate
SamplesOf(ms) == (ms * seg.cfg.sample_rate_hz) \div 1000

(***************************************************************************)
(* C1 and C6: the scenarios on the default configuration                    *)
(***************************************************************************)
\* C1: on the blip stream (100 ms voiced, 1 s unvoiced, default options)
\* push_audio never emits a Final and emits exactly one Reset over the whole
\* input.
C1_BlipOneResetNoFinal ==
    input = BlipStream =>
        /\ CountKind(events, "Final") = 0
        /\ CountKind(events, "Reset") <= 1
        /\ AllFed => CountKind(events, "Reset") = 1

\* C6: on the single-utterance stream (200 ms unvoiced, 1.5 s voiced, 800 ms
\* unvoiced, default options) the events are Partials followed by one Final
\* and nothing else; once the whole stream is pushed there is a Final, at
\* least one Partial before it, and the Final holds between 1.5 s and
\* 1.5 + 0.6 + 0.25 s of samples.
C6_SingleUtterance ==
    input = SingleStream =>
        /\ ScenarioScaleExact
        /\ \A i \in 1..Len(events) :
              \/ events[i].kind = "Partial"
              \/ events[i].kind = "Final" /\ i = Len(events) /\ i > 1
        /\ AllFed =>
              /\ Len(events) >= 2
              /\ events[Len(events)].kind = "Final"
              /\ Len(events[Len(events)].audio) >= SamplesOf(1500)
              /\ Len(events[Len(events)].audio)
                    <= SamplesOf(1500 + DefaultVadEndSilenceMs + DefaultPreRollMs)

\* the single-utterance stream was pushed whole and ended in a Final after
\* several Partials
C6_Witness ==
    /\ input = SingleStream
    /\ AllFed
    /\ CountKind(events, "Final") = 1
    /\ CountKind(events, "Partial") >= 2

\* the blip stream was pushed whole: the code ends the utterance with a Final
C1_BlipEndsInFinal ==
    /\ input = BlipStream
    /\ AllFed
    /\ Kinds(events) = <<"Partial", "Final">>

(***************************************************************************)
(* C2, C3: what a Final carries                                             *)
(***************************************************************************)
SetMax(S) == CHOOSE x \in S : \A y \in S : y <= x

\* the onset frame of the utterance that an event emitted at frame f belongs to
OnsetBefore(f) == SetMax({o \in Range(onsets) : o < f})

\* the frame of the last Final or Reset before frame f, -1 if there is none
EndBefore(f) ==
    LET ends == {events[i].frame : i \in {j \in 1..Len(events) :
                     Terminating(events[j]) /\ events[j].frame < f}}
    IN  IF ends = {} THEN -1 ELSE SetMax(ends)

\* the silence before onset frame o: the frames since the previous utterance
\* ended (or since the start of the stream)
SilenceBefore(o) == FramesSamples(EndBefore(o) + 1, o - 1)

\* C2: every Final payload is the trailing pre_roll_samples samples of the
\* silence that preceded the onset frame, followed by every sample from the
\* onset frame through the termination frame.
C2_FinalPayload ==
    \A i \in 1..Len(events) :
        events[i].kind = "Final" =>
            LET o == OnsetBefore(events[i].frame)
            IN  events[i].audio =
                    LastN(SilenceBefore(o), seg.pre_roll_samples)
                        \o FramesSamples(o, events[i].frame)

\* what the code does instead: the pre-roll capacity is spent on the silence
\* and the onset frame together, so the payload starts with the last
\* pre_roll_samples samples of the stream up to and including the onset frame
C2_PayloadOfTheCode ==
    \A i \in 1..Len(events) :
        events[i].kind = "Final" =>
            LET o == OnsetBefore(events[i].frame)
            IN  events[i].audio =
                    (IF seg.pre_roll_samples = 0 THEN << >>
                     ELSE LastN(SilenceBefore(o) \o FramesSamples(o, o),
                                seg.pre_roll_samples))
                        \o FramesSamples(o + 1, events[i].frame)

\* C3: no Final payload is longer than max_segment_samples.
C3_FinalWithinMaxSegment ==
    \A i \in 1..Len(events) :
        events[i].kind = "Final" => Len(events[i].audio) <= seg.max_segment_samples

(***************************************************************************)
(* C4: what a Partial carries                                               *)
(***************************************************************************)
\* C4: every Partial payload is the last min(max_window_samples, len) samples
\* of the utterance as it stood once the current frame was appended, so it is
\* never longer than max_window_samples; with max_window_s = 0 it is the whole
\* utterance.
C4_PartialWindow ==
    \A i \in 1..Len(events) :
        events[i].kind = "Partial" =>
            LET e == events[i]
                keep == Min(seg.max_window_samples, Len(e.utt))
            IN  /\ IsSuffix(FramesSamples(e.frame, e.frame), e.utt)
                /\ e.audio = LastN(e.utt, keep)
                /\ Len(e.audio) = keep
                /\ Len(e.audio) <= seg.max_window_samples
                /\ seg.cfg.max_window_ms = 0 => e.audio = e.utt

\* a Partial was cut down to the window, and another (max_window_s = 0 is in
\* Configs) carried an utterance longer than one frame whole
C4_Witness ==
    \E i \in 1..Len(events) :
        /\ events[i].kind = "Partial"
        /\ Len(events[i].utt) > seg.max_window_samples
        /\ Len(events[i].audio) > seg.frame_size

(***************************************************************************)
(* C5: the order of events                                                  *)
(***************************************************************************)
EventsAt(f) == {i \in 1..Len(events) : events[i].frame = f}

\* what frame f did: "Onset", the kind of the event it emitted, or "None"
FrameMark(f) ==
    IF f \in Range(onsets) THEN "Onset"
    ELSE IF EventsAt(f) = {} THEN "None"
    ELSE events[CHOOSE i \in EventsAt(f) : TRUE].kind

\* frames f .. frames_done-1 follow (Onset Partial* (Final | Reset))*, read
\* from inside an utterance (open) or from outside one
RECURSIVE WellOrderedFrom(_, _)
WellOrderedFrom(f, open) ==
    IF f >= frames_done THEN TRUE
    ELSE LET m == FrameMark(f)
         IN  IF m = "None" THEN WellOrderedFrom(f + 1, open)
             ELSE IF m = "Onset" THEN ~open /\ WellOrderedFrom(f + 1, TRUE)
             ELSE IF m = "Partial" THEN open /\ WellOrderedFrom(f + 1, TRUE)
             ELSE open /\ WellOrderedFrom(f + 1, FALSE)

\* C5: a frame emits at most one event and an onset frame none; events are in
\* frame order; and over the frames processed so far every utterance is an
\* onset, then Partials, then one Final or Reset, with no Partial (or second
\* terminating event) before the next onset.
C5_EventOrder ==
    /\ \A f \in 0..(frames_done - 1) :
          /\ Cardinality(EventsAt(f)) <= 1
          /\ f \in Range(onsets) => EventsAt(f) = {}
    /\ \A i \in 1..Len(events) :
          /\ events[i].frame < frames_done
          /\ i > 1 => events[i - 1].frame < events[i].frame
    /\ WellOrderedFrom(0, FALSE)

\* an utterance with a Partial ended in a frame where both the silence and
\* the max-length conditions held (end_silence_frames = 1 and the frame is
\* unvoiced), and a later utterance emitted a Partial
C5_Witness ==
    \E i, j, k \in 1..Len(events) :
        /\ i < j /\ j < k
        /\ events[i].kind = "Partial"
        /\ Terminating(events[j])
        /\ OnsetBefore(events[i].frame) = OnsetBefore(events[j].frame)
        /\ seg.end_silence_frames = 1
        /\ ~FrameVoiced(events[j].frame)
        /\ events[j].ulen >= seg.max_segment_samples
        /\ events[k].kind = "Partial"

(***************************************************************************)
(* C7: the max-segment flush                                                *)
(***************************************************************************)
InputFrames == Len(input) \div seg.frame_size

AllVoiced == \A f \in 0..(InputFrames - 1) : FrameVoiced(f)

\* the frame at which max_segment_samples of audio have been consumed
CapFrame == (seg.max_segment_samples + seg.frame_size - 1) \div seg.frame_size - 1

\* C7: on a continuously voiced stream longer than max_segment_s a Final is
\* emitted no later than the frame at which max_segment_s of audio has been
\* consumed, and the voiced frame after a Final starts a new utterance:
\* in_speech is true again and the frame is in the new utterance.
C7_MaxSegmentFlush ==
    (AllVoiced /\ Len(input) > seg.max_segment_samples) =>
        /\ frames_done > CapFrame =>
              \E i \in 1..Len(events) :
                  events[i].kind = "Final" /\ events[i].frame <= CapFrame
        /\ \A i \in 1..Len(events) :
              (events[i].kind = "Final" /\ frames_done = events[i].frame + 2) =>
                  /\ seg.in_speech
                  /\ IsSuffix(FramesSamples(frames_done - 1, frames_done - 1),
                              seg.utterance)

\* the same statement for the configurations whose pre-roll holds at least
\* one frame, where the onset frame survives the pre-roll trim
C7_WithPreRollOfAFrame ==
    seg.pre_roll_samples >= seg.frame_size => C7_MaxSegmentFlush

(***************************************************************************)
(* C8: silence only                                                         *)
(***************************************************************************)
\* C8: while no processed frame was voiced, however the stream was split
\* into push_audio calls, no event has been emitted and the segmenter has
\* never been in speech.
C8_SilenceOnly ==
    (\A f \in 0..(frames_done - 1) : ~FrameVoiced(f)) =>
        /\ events = << >>
        /\ onsets = << >>
        /\ ~seg.in_speech
        /\ seg.utterance = << >>

\* a stream of unvoiced frames only was pushed whole
C8_Witness ==
    /\ AllFed
    /\ frames_done = InputFrames
    /\ frames_done > 1
    /\ \A f \in 0..(frames_done - 1) : ~FrameVoiced(f)

(***************************************************************************)
(* C9: the pace of Partials                                                 *)
(***************************************************************************)
\* C9: two consecutive Partials of one utterance are emitted at utterance
\* lengths at least asr_step_samples apart, and no Partial is emitted while
\* the utterance is shorter than min_speech_samples.
C9_PartialPace ==
    \A i \in 1..Len(events) :
        events[i].kind = "Partial" =>
            /\ events[i].ulen >= seg.min_speech_samples
            /\ (i > 1 /\ events[i - 1].kind = "Partial") =>
                  events[i].ulen - events[i - 1].ulen >= seg.asr_step_samples

\* two consecutive Partials of one utterance, more than one frame apart
\* because the step is longer than a frame
C9_Witness ==
    \E i \in 2..Len(events) :
        /\ events[i].kind = "Partial"
        /\ events[i - 1].kind = "Partial"
        /\ seg.asr_step_samples > seg.frame_size
        /\ events[i].frame > events[i - 1].frame + 1

(***************************************************************************)
(* C10: the committed vector only grows                                     *)
(***************************************************************************)
\* C10: an update call leaves the committed vector it found as a prefix of
\* the committed vector it leaves; so between resets the committed vector
\* after each update is a prefix of that after every later update.
C10_CommittedMonotone ==
    [][op' = "update" => IsPrefix(stab.committed, stab'.committed)]_vars

\* an update has committed tokens on top of earlier ones and left a pending tail
C10_Witness ==
    /\ op = "update"
    /\ Len(stab.committed) >= 2
    /\ stab.pending_prev # << >>

(***************************************************************************)
(* C11: a token is committed only after enough update calls in a row        *)
(***************************************************************************)
\* C11: every token an update call appends to committed has been at the same
\* place of the pending tail in at least stable_required update calls in a
\* row, this call being the last of them; update calls with an empty or
\* whitespace-only hypothesis count as calls.
C11_CommitThreshold ==
    op = "update" =>
        \A k \in (seen.base + 1)..Len(stab.committed) :
            /\ k - seen.base <= Len(seen.toks)
            /\ seen.toks[k - seen.base] = stab.committed[k]
            /\ seen.runs[k - seen.base] >= stab.stable_required

(***************************************************************************)
(* C12: the convergence scenario                                            *)
(***************************************************************************)
\* the first n recorded hypotheses are those of script
StartsWith(script) ==
    /\ Len(calls) >= Len(script)
    /\ \A i \in 1..Len(script) : calls[i].h = script[i]

\* C12: with stable_required = 2 the update calls "hello wor", "hello world",
\* "hello world today" on a new stabilizer leave committed = [], then
\* ["hello"], then ["hello", "world"], and the last leaves the pending tail
\* ["today"] with count 1.
C12_Convergence ==
    stab.stable_required = 2 =>
        /\ StartsWith(<<HelloWor>>) => calls[1].st.committed = << >>
        /\ StartsWith(<<HelloWor, HelloWorld>>) =>
              calls[2].st.committed = <<Hello>>
        /\ StartsWith(<<HelloWor, HelloWorld, HelloWorldToday>>) =>
              /\ calls[3].st.committed = <<Hello, World>>
              /\ calls[3].st.pending_prev = <<Today>>
              /\ calls[3].st.pending_counts = <<1>>

\* the three calls of the scenario have been made
C12_Witness ==
    /\ stab.stable_required = 2
    /\ Len(calls) = 3
    /\ StartsWith(<<HelloWor, HelloWorld, HelloWorldToday>>)
    /\ op = "update"

(***************************************************************************)
(* C13: the overlap strip                                                   *)
(***************************************************************************)
Occurrences(tok, toks) == Cardinality({i \in 1..Len(toks) : toks[i] = tok})

\* recorded calls i and i + 1 are update("A B C") and update("B C D"), made on
\* a stabilizer whose committed vector is ["A"] and whose pending tail is empty
OverlapScenarioAt(i) ==
    /\ calls[i - 1].st.committed = <<TokA>>
    /\ calls[i - 1].st.pending_prev = << >>
    /\ calls[i].h = TextABC
    /\ calls[i + 1].h = TextBCD

\* "A" is once in committed followed by pending after recorded call i
NoSecondA(i) ==
    Occurrences(TokA, calls[i].st.committed \o calls[i].st.pending_prev) = 1

\* the tokens the last update call added to committed, followed by the
\* pending tail it left, are its hypothesis without the first k tokens, k the
\* largest number such that the last k tokens committed before the call are
\* the first k tokens of the hypothesis
LargestOverlapDropped ==
    LET tokens == tokenize(calls[Len(calls)].h)
        before == FirstN(stab.committed, seen.base)
        k == SetMax({j \in 0..Min(Len(before), Len(tokens)) :
                        LastN(before, j) = FirstN(tokens, j)})
    IN  (calls # << >> /\ tokens # << >>) =>
            SubSeq(stab.committed, seen.base + 1, Len(stab.committed))
                \o stab.pending_prev
              = SubSeq(tokens, k + 1, Len(tokens))

\* C13 as stated: from committed = ["A"], update("A B C") returns pending
\* "B C" and update("B C D") returns pending "B C D", "A" is never there a
\* second time, and update drops the largest overlap.
C13_OverlapStripAsStated ==
    /\ \A i \in 2..(Len(calls) - 1) :
          OverlapScenarioAt(i) =>
              /\ calls[i].ret[2] = TextBC
              /\ calls[i + 1].ret[2] = TextBCD
              /\ NoSecondA(i) /\ NoSecondA(i + 1)
    /\ LargestOverlapDropped

\* C13 (amended): from committed = ["A"] and an empty pending tail,
\* update("A B C") returns pending "B C" when stable_required >= 2, and
\* update("B C D") returns pending "B C D" when stable_required >= 3; with
\* stable_required = 2 the second call commits "B" and "C" and returns
\* pending "D", and with stable_required = 1 every token is committed at once
\* and both calls return an empty pending text.  "A" is never there a second
\* time, and update drops the largest overlap.
C13_OverlapStrip ==
    /\ \A i \in 2..(Len(calls) - 1) :
          OverlapScenarioAt(i) =>
              /\ calls[i].ret[2] =
                    (IF stab.stable_required >= 2 THEN TextBC ELSE << >>)
              /\ calls[i + 1].ret[2] =
                    (IF stab.stable_required >= 3 THEN TextBCD
                     ELSE IF stab.stable_required = 2 THEN TokD
                     ELSE << >>)
              /\ stab.stable_required = 2 =>
                    calls[i + 1].st.committed = <<TokA, TokB, TokC>>
              /\ NoSecondA(i) /\ NoSecondA(i + 1)
    /\ LargestOverlapDropped

\* the two calls have been made with stable_required = 2, and the second has
\* just returned
C13_Witness ==
    /\ stab.stable_required = 2
    /\ Len(calls) >= 3
    /\ OverlapScenarioAt(Len(calls) - 1)
    /\ op = "update"

\* the same with stable_required = 3
C13_WitnessThree ==
    /\ stab.stable_required = 3
    /\ Len(calls) >= 3
    /\ OverlapScenarioAt(Len(calls) - 1)

(***************************************************************************)
(* C14: finalize is authoritative                                           *)
(***************************************************************************)
\* s with every run of whitespace made a single space
RECURSIVE SingleSpaced(_)
SingleSpaced(s) ==
    IF Len(s) <= 1 THEN s
    ELSE IF IsSpace(s[1]) /\ IsSpace(s[2]) THEN SingleSpaced(Tail(s))
    ELSE <<s[1]>> \o SingleSpaced(Tail(s))

\* s without a whitespace character at its start and at its end
WithoutEdgeSpace(s) ==
    LET a == IF s # << >> /\ IsSpace(s[1]) THEN Tail(s) ELSE s
    IN  IF a # << >> /\ IsSpace(a[Len(a)]) THEN SubSeq(a, 1, Len(a) - 1) ELSE a

\* the whitespace-separated words of s, joined by single spaces
WordsSingleSpaced(s) == WithoutEdgeSpace(SingleSpaced(s))

\* after finalize(h): the returned text is the words of h joined by single
\* spaces, whatever the struct held, and the three vectors are empty
FinalizeOutcome ==
    op = "finalize" =>
        /\ ret = WordsSingleSpaced(finalized)
        /\ stab.committed = << >>
        /\ stab.pending_prev = << >>
        /\ stab.pending_counts = << >>
        /\ stab = Stabilizer_new(stab.stable_required)

\* an update that follows a finalize leaves a struct and returns a pair that
\* the update of a new stabilizer leaves and returns (update reads nothing
\* but the struct and its argument, and the struct is that of a new
\* stabilizer)
UpdateAfterFinalize ==
    (op = "finalize" /\ op' = "update") =>
        \E h \in Hypotheses :
            [st |-> stab', ret |-> ret'] =
                Stabilizer_update(Stabilizer_new(stab.stable_required), h)

\* C14: finalize(h) returns the whitespace-separated tokens of h joined by
\* single spaces, independently of the committed and pending state, leaves
\* committed, pending_prev and pending_counts empty, and an update that
\* follows it behaves as on a freshly constructed stabilizer.
C14_FinalizeAuthoritative == [](FinalizeOutcome) /\ [][UpdateAfterFinalize]_vars

\* finalize has just returned a text of several words, shorter than the
\* hypothesis because whitespace was dropped
C14_Witness ==
    /\ op = "finalize"
    /\ Len(tokenize(finalized)) >= 2
    /\ Len(ret) < Len(finalized)

(***************************************************************************)
(* C15: coalescing of queued Partials                                       *)
(***************************************************************************)
\* the worker has finished the match of the iteration recorded in iter
IterDone == iter.handled # NoEvent

AllPartial(evs) == \A i \in 1..Len(evs) : evs[i].kind = "Partial"

\* C15: an iteration that takes a Partial off the event queue and finds only
\* further Partials there calls transcribe exactly once, as a partial decode
\* of the audio of the newest of them, and the older ones are never given to
\* transcribe: only events the match has handled are.
C15_Coalescing ==
    /\ (IterDone /\ Len(iter.taken) >= 2 /\ AllPartial(iter.taken)) =>
          /\ iter.calls = <<[id |-> iter.taken[Len(iter.taken)].id,
                             is_partial |-> TRUE]>>
          /\ \A i \in 1..(Len(iter.taken) - 1) :
                iter.taken[i].id \notin hist.decoded
    /\ hist.decoded \subseteq Range(hist.handled)

\* three Partials were on the event queue when the worker took the first,
\* the pass took the other two, and the iteration has made its one call
C15_Witness ==
    /\ IterDone
    /\ Len(iter.backlog) = 2
    /\ AllPartial(iter.taken)
    /\ iter.taken = <<iter.taken[1]>> \o iter.backlog
    /\ Len(iter.calls) = 1

(***************************************************************************)
(* C16: coalescing keeps every Final and Reset, in order                    *)
(***************************************************************************)
IsEnd(e) == e.kind \in {"Final", "Reset"}

QueueIds(q) == {q[i].id : i \in 1..Len(q)}

\* a Final or Reset that was placed on the event queue is on the queue, in
\* the worker's hand, or handled
EndsKept ==
    \A e \in hist.queued :
        IsEnd(e) =>
            \/ e.id \in QueueIds(event_q)
            \/ worker.event = e
            \/ e.id \in Range(hist.handled)

\* events are handled in the order of the queue, and none is handled ahead
\* of a Final or Reset that was placed on the queue before it
EndsInOrder ==
    /\ \A i, j \in 1..Len(hist.handled) :
          i < j => hist.handled[i] < hist.handled[j]
    /\ \A e \in hist.queued :
          (IsEnd(e) /\ \E i \in 1..Len(hist.handled) : e.id < hist.handled[i])
              => e.id \in Range(hist.handled)

\* the coalescing pass goes on only with a Partial in hand: a Final or Reset
\* is the last event an iteration takes off the queue
PassStopsAtEnd ==
    /\ worker.pc = "coalesce" => worker.event.kind = "Partial"
    /\ \A i \in 1..(Len(iter.taken) - 1) : iter.taken[i].kind = "Partial"
    /\ \A i \in 1..Len(event_q) :
          iter.taken # << >> => iter.taken[Len(iter.taken)].id < event_q[i].id

\* a Final or Reset on the event queue is handled, unless the worker ends
EndsHandled ==
    \A id \in 1..MaxEvents :
        (\E e \in hist.queued : e.id = id /\ IsEnd(e))
            ~> (id \in Range(hist.handled) \/ worker.pc = "done")

\* C16: coalescing never discards a Final or Reset and never reorders across
\* one: every Final or Reset placed on the event queue is handled by the
\* running worker, in queue order; the coalescing pass stops at the first
\* Final or Reset it meets and leaves the events behind it on the queue.
C16_EndsSurviveCoalescing ==
    /\ [](EndsKept /\ EndsInOrder /\ PassStopsAtEnd)
    /\ EndsHandled

\* a coalescing pass has met a Final behind a Partial, the Final has been
\* handled, and an event queued behind it is still on the queue
C16_Witness ==
    /\ IterDone
    /\ Len(iter.taken) >= 2
    /\ iter.handled.kind = "Final"
    /\ event_q # << >>
    /\ iter.handled.id < event_q[1].id

(***************************************************************************)
(* C17: every successful, non-empty Final is sent                           *)
(***************************************************************************)
\* the match has made a try_send of msg on the caption queue
Sent(msg) == \E i \in 1..Len(iter.sends) : iter.sends[i].msg = msg

\* C17: when the worker has handled a Final whose transcribe call returned a
\* text that is not empty after trimming, it has sent Update{text, is_final:
\* true}, text being the words of the returned text joined by single spaces;
\* a send that finds the caption queue full counts as a send.
C17_FinalSent ==
    (/\ IterDone
     /\ iter.handled.kind = "Final"
     /\ iter.result = "ok"
     /\ trim(iter.text) # << >>)
        => Sent(CaptionUpdate(WordsSingleSpaced(iter.text), TRUE))

\* what the code keeps to: the Update is sent unless the text is the text of
\* the last Update the worker made and that Update was final too
C17_FinalSentUnlessRepeated ==
    (/\ IterDone
     /\ iter.handled.kind = "Final"
     /\ iter.result = "ok"
     /\ trim(iter.text) # << >>)
        => \/ Sent(CaptionUpdate(WordsSingleSpaced(iter.text), TRUE))
           \/ /\ iter.sends = << >>
              /\ worker.last_caption = WordsSingleSpaced(iter.text)
              /\ worker.last_final

(***************************************************************************)
(* C18: a decoded Partial is sent unless it repeats the last update sent    *)
(***************************************************************************)
\* the worker has handled a Partial that transcribe decoded
PartialDecoded ==
    /\ IterDone
    /\ iter.handled.kind = "Partial"
    /\ iter.result = "ok"

\* the Update is sent unless it is the last Update placed on the caption queue
SentUnlessLastPlaced ==
    PartialDecoded =>
        (CaptionUpdate(iter.display, FALSE) # iter.update
            => Sent(CaptionUpdate(iter.display, FALSE)))

\* an Update placed on the caption queue differs from the CaptionEvent
\* placed just before it
NoRepeatOnQueue ==
    \A i \in 1..Len(iter.sends) :
        (iter.sends[i].ok /\ iter.sends[i].msg.kind = "Update")
            => iter.sends[i].msg # iter.before

\* C18: for a decoded Partial the worker sends Update{text, is_final: false}
\* unless it is identical to the last Update placed on the caption queue, and
\* the caption queue never receives the same Update twice in a row, also
\* after sends were dropped on a full queue.
C18_NoRepeatedUpdate == SentUnlessLastPlaced /\ NoRepeatOnQueue

\* what the code keeps to: the Update is sent unless it is the last Update
\* the worker tried to send, placed or not, with no Clear since
C18_SentUnlessLastTried ==
    [][(worker.pc = "handle" /\ worker.event.kind = "Partial"
            /\ iter'.result = "ok")
        => (Len(iter'.sends) = 1
              <=> (iter'.display # worker.last_caption \/ worker.last_final))]_vars

(***************************************************************************)
(* C19: a Reset clears the displayed caption                                *)
(***************************************************************************)
\* the caption the sink shows once it has taken every CaptionEvent placed
\* before the match: the text of the last one if it is an Update
DisplayedBefore == IF iter.before.kind = "Update" THEN iter.before.text ELSE << >>

\* C19: when the worker has handled a Reset the stabilizer is empty, and the
\* worker has sent Clear if and only if a non-empty caption was displayed
\* (the last CaptionEvent placed on the caption queue was an Update with a
\* non-empty text); otherwise it has sent nothing.
C19_ResetClears ==
    (IterDone /\ iter.handled.kind = "Reset") =>
        /\ stab.committed = << >>
        /\ stab.pending_prev = << >>
        /\ stab.pending_counts = << >>
        /\ IF DisplayedBefore # << >>
           THEN iter.sends # << >> /\ Sent(CaptionClear)
           ELSE iter.sends = << >>

\* what the code keeps to: Clear is sent if and only if the text of the last
\* Update the worker tried to send, placed or not, is non-empty and no Clear
\* has been tried since
C19_ResetClearsLastTried ==
    [][(worker.pc = "handle" /\ worker.event.kind = "Reset" /\ worker'.pc = "top")
        => /\ stab'.committed = << >>
           /\ stab'.pending_prev = << >>
           /\ stab'.pending_counts = << >>
           /\ IF worker.last_caption # << >>
              THEN Len(iter'.sends) = 1 /\ iter'.sends[1].msg = CaptionClear
              ELSE iter'.sends = << >>]_vars

(***************************************************************************)
(* C20: a transcription error is logged and nothing else                    *)
(***************************************************************************)
\* a match whose transcribe call fails sends nothing, leaves the caption
\* queue, the locals and the stabilizer alone, and returns to the loop
ErrorIsDiscarded ==
    (worker.pc = "handle" /\ iter'.result = "err") =>
        /\ iter'.sends = << >>
        /\ caption_q' = caption_q
        /\ hist'.placed = hist.placed
        /\ stab' = stab
        /\ worker' = [worker EXCEPT !.pc = "top", !.event = NoEvent]

\* the loop ends at the test of the stop flag, or at a recv_timeout that
\* finds the queue empty and the sender gone
EndsOnStopOrDisconnect ==
    (worker.pc # "done" /\ worker'.pc = "done") =>
        \/ worker.pc = "top" /\ stop
        \/ worker.pc = "recv" /\ event_q = << >> /\ ~producer.alive

\* after a failed match with an event waiting on the queue, the worker has
\* the next event in hand for its match, unless the loop has ended
GoesOnAfterError ==
    (IterDone /\ iter.result = "err" /\ event_q # << >>)
        ~> (worker.pc = "handle" \/ worker.pc = "done")

\* C20: a backend error while handling a Partial or a Final produces no
\* CaptionEvent and does not stop the worker, which goes on to the next
\* queued event; only the stop flag or the disconnection of the event queue
\* ends the loop.
C20_ErrorPolicy ==
    /\ [][ErrorIsDiscarded]_vars
    /\ [][EndsOnStopOrDisconnect]_vars
    /\ GoesOnAfterError

\* a transcribe call has failed, the worker is back in recv_timeout and
\* the next event is on the queue
C20_Witness ==
    /\ IterDone
    /\ iter.result = "err"
    /\ event_q # << >>
    /\ worker.pc = "recv"

(***************************************************************************)
(* C21: the stabilizer is scoped to one utterance                           *)
(***************************************************************************)
\* the utterance of the event id: utterances are numbered in the order the
\* segmenter began them
UtteranceOf(id) == Cardinality({s \in hist.starts : s <= id})

\* the worker has handled no event of the utterance of id yet
FirstOfUtterance(id) ==
    \A i \in 1..Len(hist.handled) : UtteranceOf(hist.handled[i]) # UtteranceOf(id)

\* C21: whenever the worker is about to handle the first Partial of an
\* utterance, the committed and the pending vectors of the stabilizer are
\* empty.
C21_StabilizerPerUtterance ==
    (/\ worker.pc = "handle"
     /\ worker.event.kind = "Partial"
     /\ FirstOfUtterance(worker.event.id)) =>
        /\ stab.committed = << >>
        /\ stab.pending_prev = << >>

(***************************************************************************)
(* C22: bounded queues, and no producer waits for room                      *)
(***************************************************************************)
QueuesBounded ==
    /\ Len(audio_q) <= AudioQueueCap
    /\ Len(event_q) <= EventQueueCap
    /\ Len(caption_q) <= CaptionQueueCap

\* a producer that has something to send can take its step, whatever the
\* queue it sends to holds
NoProducerWaits ==
    /\ (capture.pc = "run" /\ capture.fed < MaxBuffers) =>
           ENABLED CaptureCallback("chunk")
    /\ proc.pc = "emit" =>
           ENABLED (\E kind \in {"Partial", "Final", "Reset"} : ProcEmit(kind))
    /\ (worker.pc = "handle" /\ worker.event.kind = "Partial") =>
           \A res \in EngineResults : ENABLED HandlePartial(res)
    /\ (worker.pc = "handle" /\ worker.event.kind = "Final") =>
           \A res \in EngineResults : ENABLED HandleFinal(res)
    /\ (worker.pc = "handle" /\ worker.event.kind = "Reset") => ENABLED HandleReset

\* every chunk on the audio queue is taken off it, unless the processing
\* thread has ended: the transcription thread is not assumed to move
AudioConsumed ==
    \A c \in 1..MaxBuffers :
        (c \in Range(audio_q)) ~> (c \notin Range(audio_q) \/ proc.pc = "done")

\* C22: the three queues never hold more than their capacities, no producer
\* (audio callback, processing thread, transcription thread) ever waits for
\* room on a queue, and the processing thread goes on taking chunks off the
\* audio queue however long the transcription thread stays in a transcribe
\* call.
C22_BoundedNoBlocking == [](QueuesBounded /\ NoProducerWaits) /\ AudioConsumed

\* the event queue has filled up and a chunk has been taken off the audio
\* queue while the transcription thread is in the transcribe call of the
\* Final it received
C22_Witness ==
    /\ worker.pc = "handle"
    /\ worker.event.kind = "Final"
    /\ iter.backlog = << >>
    /\ Len(event_q) = EventQueueCap
    /\ audio_q = << >>
    /\ capture.placed = MaxBuffers

(***************************************************************************)
(* C23: every drop on a full queue is logged                                *)
(***************************************************************************)
\* C23: whenever a try_send fails on a full queue (an audio chunk in the
\* audio callback, an event in the processing thread, an Update or a Clear
\* in the transcription thread), a queue-full warning is logged for it.
C23_DropsLogged ==
    /\ ~last_send.ok => last_send.warned
    /\ \A i \in 1..Len(iter.sends) : ~iter.sends[i].ok => iter.sends[i].warned

\* the drops of the processing thread and of maybe_send_update are logged
C23_EventAndUpdateDropsLogged ==
    /\ (last_send.site = "event" /\ ~last_send.ok) => last_send.warned
    /\ \A i \in 1..Len(iter.sends) :
          (iter.sends[i].msg.kind = "Update" /\ ~iter.sends[i].ok) => iter.sends[i].warned

(***************************************************************************)
(* C24: clean shutdown                                                      *)
(***************************************************************************)
ThreadsEnded ==
    /\ capture.pc = "done"
    /\ proc.pc = "done"
    /\ worker.pc = "done"

\* once stop_and_join has set the stop flag the three threads end and
\* stop_and_join returns
ShutdownCompletes ==
    (sup.join # "no") ~> (ThreadsEnded /\ sup.join = "returned")

\* a thread whose input queue is disconnected ends
DisconnectEndsThread ==
    /\ AudioDisconnected ~> (proc.pc = "done")
    /\ (~producer.alive /\ worker.pc # "idle") ~> (worker.pc = "done")

\* C24: after stop_and_join has set the stop flag, the capture thread, the
\* processing thread and the transcription thread end and stop_and_join
\* returns, whatever the queues hold; and a thread whose input queue is
\* disconnected ends.
C24_CleanShutdown == ShutdownCompletes /\ DisconnectEndsThread

\* stop_and_join has returned with something left on every queue
C24_Witness ==
    /\ sup.join = "returned"
    /\ ThreadsEnded
    /\ audio_q # << >>
    /\ event_q # << >>
    /\ caption_q # << >>

\* the processing thread has ended on a disconnected audio queue, the stop
\* flag not set
C24_WitnessDisconnected ==
    /\ ~stop
    /\ AudioDisconnected
    /\ proc.pc = "done"

(***************************************************************************)
(* C25: fatal startup errors are returned by start_engine                   *)
(***************************************************************************)
\* C25: when the initialisation of the capture has failed, start_engine has
\* returned an error to its caller; the failure is never known to the
\* capture thread alone while start_engine has returned Ok.
C25_StartupErrorsReturned == capture.failed => sup.ret = "err"

(***************************************************************************)
(* C26: audio at another sample rate than 48 kHz                            *)
(***************************************************************************)
\* C26: once the source has delivered a sample buffer at another rate than
\* 48 kHz, the capture has failed its startup.
C26_WrongRateFailsStartup ==
    (~capture.rate_ok /\ capture.fed > 0) => capture.failed

\* with a source at another rate no chunk reaches the audio queue
C26_WrongRateNoAudio ==
    ~capture.rate_ok => (capture.placed = 0 /\ audio_q = << >>)

\* the engine runs on although every buffer has been rejected
C26_RunsOnWithoutAudio ==
    /\ ~capture.rate_ok
    /\ capture.fed = MaxBuffers
    /\ capture.warned_decode_error
    /\ capture.pc = "run"
    /\ ~stop
    /\ sup.ret = "ok"

(***************************************************************************)
(* C27: final-only mode                                                     *)
(***************************************************************************)
\* the events placed on the event queue so far, and those on it now
EverQueued == hist.queued \cup Range(event_q)

\* C27: with the streaming option off every event placed on the event queue
\* is a Final, and a Partial (or a Reset) is placed on it only when the
\* streaming option is on and the engine is the local one.
C27_FinalOnlyMode ==
    /\ ~sup.cli.streaming => \A e \in EverQueued : e.kind = "Final"
    /\ \A e \in EverQueued :
          e.kind \in {"Partial", "Reset"} =>
              (sup.cli.streaming /\ sup.cli.engine = "Local")

\* two Finals have gone through the event queue with the streaming option off
C27_Witness ==
    /\ ~sup.cli.streaming
    /\ Cardinality(hist.queued) >= 2
    /\ \E e \in hist.queued : e.id \in Range(hist.handled)

\* Partials go through the event queue of the local engine with the option on
C27_WitnessStreaming ==
    /\ sup.cli.streaming
    /\ sup.cli.engine = "Local"
    /\ \E e \in hist.queued : e.kind = "Partial"

(***************************************************************************)
(* C28, C29, C30: invariants of the StreamingSegmenter struct               *)
(***************************************************************************)
\* C28: in_speech implies that utterance is not empty and pre_roll is empty,
\* for every configuration (pre_roll_samples = 0 and pre_roll_samples below
\* frame_size included).
C28_InSpeechHasUtterance ==
    seg.in_speech => (seg.utterance # << >> /\ seg.pre_roll = << >>)

\* the same for the configurations that keep a pre-roll
C28_InSpeechHasUtteranceWithPreRoll ==
    (seg.pre_roll_samples > 0 /\ seg.in_speech) =>
        (seg.utterance # << >> /\ seg.pre_roll = << >>)

\* C29: utterance.len() <= max_segment_samples after every frame, for every
\* configuration (pre_roll_samples above max_segment_samples included).
C29_UtteranceWithinMaxSegment ==
    Len(seg.utterance) <= seg.max_segment_samples

\* the frame processed last was a voice onset
JustOnset == onsets # << >> /\ onsets[Len(onsets)] = frames_done - 1

\* the frame processed last ended an utterance with a Final or a Reset
JustEnded ==
    /\ events # << >>
    /\ Terminating(events[Len(events)])
    /\ events[Len(events)].frame = frames_done - 1

\* C30: pre_roll.len() <= pre_roll_samples after every frame, and pre_roll
\* is empty right after the frame of a voice onset, a Final or a Reset.
C30_PreRollBounded ==
    /\ Len(seg.pre_roll) <= seg.pre_roll_samples
    /\ (JustOnset \/ JustEnded) => seg.pre_roll = << >>

\* the pre-roll is full after more quiet audio than it holds
C30_Witness ==
    /\ seg.pre_roll_samples > seg.frame_size
    /\ Len(seg.pre_roll) = seg.pre_roll_samples
    /\ frames_done * seg.frame_size > seg.pre_roll_samples
    /\ events # << >>

\* a Final has just emptied the segmenter
C30_WitnessEnded ==
    /\ JustEnded
    /\ seg.pre_roll_samples > 0
    /\ seg.pre_roll = << >>

(***************************************************************************)
(* C31: invariant of the Stabilizer struct                                  *)
(***************************************************************************)
\* C31: after every update call pending_counts is as long as pending_prev
\* and each of its values is at least 1 and below stable_required; with
\* stable_required = 1 the pending tail is empty.
C31_PendingCounts ==
    /\ stab.stable_required >= 1
    /\ Len(stab.pending_counts) = Len(stab.pending_prev)
    /\ \A i \in 1..Len(stab.pending_counts) :
          /\ stab.pending_counts[i] >= 1
          /\ stab.pending_counts[i] < stab.stable_required
    /\ stab.stable_required = 1 => stab.pending_prev = << >>

\* an update call that left a tail of two tokens, the first seen twice
C31_Witness ==
    /\ op = "update"
    /\ stab.committed # << >>
    /\ Len(stab.pending_prev) >= 2
    /\ stab.pending_counts[1] = 2
    /\ stab.pending_counts[2] = 1

\* an update call of a stabilizer with stable_required = 1
C31_WitnessOne ==
    /\ op = "update"
    /\ stab.stable_required = 1
    /\ Len(stab.committed) >= 2
    /\ stab.pending_prev = << >>

(***************************************************************************)
(* C32: Stabilizer::update against the seven steps of the documented state  *)
(* machine.  The reference is written from the seven steps: it has no case  *)
(* of its own for a hypothesis without tokens.                              *)
(***************************************************************************)
\* steps 1 to 7 on the struct st: the struct afterwards and the returned pair
ReferenceUpdate(st, hypothesis) ==
    LET tokens == tokenize(hypothesis)
        k == SetMax({n \in 0..Min(Len(st.committed), Len(tokens)) :
                        LastN(st.committed, n) = FirstN(tokens, n)})
        remainder == SubSeq(tokens, k + 1, Len(tokens))
        lcp == SetMax({n \in 0..Min(Len(st.pending_prev), Len(remainder)) :
                          FirstN(st.pending_prev, n) = FirstN(remainder, n)})
        counts == [i \in 1..Len(remainder) |->
                      IF i <= lcp THEN st.pending_counts[i] + 1 ELSE 1]
        stable == SetMax({n \in 0..Len(remainder) :
                             \A i \in 1..n : counts[i] >= st.stable_required})
        committed == st.committed \o FirstN(remainder, stable)
        pending == SubSeq(remainder, stable + 1, Len(remainder))
    IN  [st  |-> [st EXCEPT !.committed = committed,
                            !.pending_prev = pending,
                            !.pending_counts = SubSeq(counts, stable + 1, Len(counts))],
         ret |-> <<tokens_to_text(committed), tokens_to_text(pending)>>]

\* the reference after the first n recorded calls, started as the code was
RECURSIVE ReferenceAfter(_)
ReferenceAfter(n) ==
    IF n = 0
    THEN [st |-> Stabilizer_new(stab.stable_required), ret |-> << >>]
    ELSE ReferenceUpdate(ReferenceAfter(n - 1).st, calls[n].h)

\* the n-th recorded call left and returned what the reference did
AgreesAt(n) ==
    LET r == ReferenceAfter(n)
    IN  /\ calls[n].ret = r.ret
        /\ calls[n].st.pending_prev = r.st.pending_prev
        /\ calls[n].st.pending_counts = r.st.pending_counts

\* C32: after each update call of any sequence of hypotheses, blank ones
\* included, the returned pair and the stored pending_prev and
\* pending_counts equal those of the reference.
C32_UpdateRefinesReference ==
    \A n \in 1..Len(calls) : AgreesAt(n)

\* the same for the sequences without a blank hypothesis
C32_RefinesReferenceOnWords ==
    (\A n \in 1..Len(calls) : tokenize(calls[n].h) # << >>) =>
        \A n \in 1..Len(calls) : AgreesAt(n)

\* the returned pairs alone, blank hypotheses included
C32_ReturnsOfReference ==
    \A n \in 1..Len(calls) :
        (\A m \in 1..(n - 1) : AgreesAt(m)) => calls[n].ret = ReferenceAfter(n).ret

(***************************************************************************)
(* C33: the stop flag is looked at between events only                      *)
(***************************************************************************)
\* with the stop flag set and an event in hand, the match is still made,
\* whatever transcribe returns
CallRunsToCompletion ==
    (stop /\ worker.pc = "handle") =>
        /\ worker.event.kind = "Partial" =>
              \A res \in BackendResults : ENABLED HandlePartial(res)
        /\ worker.event.kind = "Final" =>
              \A res \in BackendResults : ENABLED HandleFinal(res)
        /\ worker.event.kind = "Reset" => ENABLED HandleReset

\* .. and its caption goes to the caption queue when there is room
CaptionStillSent ==
    (stop /\ worker.pc = "handle" /\ worker.event.kind = "Final"
          /\ Len(caption_q) < CaptionQueueCap) =>
        \E res \in BackendResults :
            ENABLED (HandleFinal(res) /\ Len(caption_q') = Len(caption_q) + 1)

\* the worker leaves the coalescing pass and the match for the loop test
\* only, and the loop test with the flag set ends the loop
StopSeenAtLoopTest ==
    /\ (worker.pc \in {"coalesce", "handle"} /\ worker'.pc # worker.pc) =>
           worker'.pc \in {"handle", "top"}
    /\ (worker.pc = "top" /\ stop /\ worker' # worker) => worker'.pc = "done"

\* after the loop has ended: no transcribe call, no match, no try_send on
\* the caption queue (the sink may still take captions off it)
NothingAfterLoop ==
    worker.pc = "done" =>
        /\ worker' = worker
        /\ iter' = iter
        /\ stab' = stab
        /\ hist'.decoded = hist.decoded
        /\ hist'.handled = hist.handled
        /\ hist'.placed = hist.placed
        /\ caption_q' = caption_q \/ caption_q' = Tail(caption_q)

\* C33: a transcribe call begun before the stop flag was set is completed
\* and its caption may still be sent; once the worker has seen the flag set
\* it makes no further call and sends no further CaptionEvent, whatever is
\* left on the event queue.
C33_StopBetweenEvents ==
    /\ [](CallRunsToCompletion /\ CaptionStillSent)
    /\ [][StopSeenAtLoopTest]_vars
    /\ [][NothingAfterLoop]_vars

\* the loop has ended on the stop flag with events left on the queue
C33_Witness ==
    /\ stop
    /\ worker.pc = "done"
    /\ event_q # << >>
    /\ hist.handled # << >>
    /\ producer.alive

\* the stop flag is set while the worker has a Final in hand
C33_WitnessInFlight ==
    /\ stop
    /\ worker.pc = "handle"
    /\ worker.event.kind = "Final"
    /\ Len(caption_q) < CaptionQueueCap

(***************************************************************************)
(* C34: the decimator across callbacks                                      *)
(***************************************************************************)
\* the sum of the last n of the first m samples of the stream
RECURSIVE SumBefore(_, _)
SumBefore(m, n) == IF n = 0 THEN 0 ELSE input[m] + SumBefore(m - 1, n - 1)

\* after fed samples in any number of callbacks: fed / 3 outputs, the k-th
\* the mean of its three inputs, phase = fed mod 3, acc the sum of the
\* samples not yet put out
DecimatorState ==
    /\ Len(capture.emitted) = fed \div 3
    /\ \A k \in 1..Len(capture.emitted) :
          3 * capture.emitted[k] = SumBefore(3 * k, 3)
    /\ capture.decimator.phase \in {0, 1, 2}
    /\ capture.decimator.phase = fed % 3
    /\ capture.decimator.acc = SumBefore(fed, fed % 3)

\* a call that did not decode leaves the decimator as it was
ErrorKeepsDecimator ==
    (\E t \in CallbackThreads : capture'.calls[t].pc = "warn" /\ capture.calls[t].pc = "none")
        => /\ capture'.decimator = capture.decimator
           /\ capture'.emitted = capture.emitted

\* C34: for any partition of a mono stream into callbacks, after n samples
\* floor(n/3) outputs have been emitted, the k-th is the mean of samples
\* 3k, 3k+1, 3k+2, phase is in {0,1,2} and equals n mod 3 between calls;
\* a callback with a decode error leaves phase and accumulator unchanged.
C34_DecimatorAcrossCallbacks ==
    /\ []DecimatorState
    /\ [][ErrorKeepsDecimator]_vars

\* two outputs from callbacks that each ended inside a group of three, with
\* a failed callback in between
C34_Witness ==
    /\ fed = MaxMono
    /\ Len(capture.emitted) = 2
    /\ capture.emitted[1] # capture.emitted[2]
    /\ capture.warned_decode_error
    /\ capture.placed = 2

\* a callback has ended in the middle of a group of three
C34_WitnessMidGroup ==
    /\ capture.decimator.phase = 2
    /\ capture.decimator.acc > 0
    /\ Len(capture.emitted) = 1
    /\ \A t \in CallbackThreads : capture.calls[t] = NoCallback

(***************************************************************************)
(* C35: decode errors of the audio callback                                 *)
(***************************************************************************)
\* one warning from the first failed call on, whatever number of calls fail
WarnedOnce ==
    /\ capture.warnings = IF capture.warned_decode_error THEN 1 ELSE 0
    /\ capture.warnings <= 1

\* after a warning a well-formed buffer is decoded, and its output is
\* placed on the audio queue when there is room
StillForwards ==
    \A t \in CallbackThreads :
        /\ (capture.warned_decode_error /\ capture.calls[t].pc = "none"
                /\ fed + 3 <= Len(input)) =>
              ENABLED (CallbackDecode(t, 3, TRUE) /\ capture'.calls[t].pc = "send")
        /\ (capture.warned_decode_error /\ capture.calls[t].pc = "send"
                /\ Len(audio_q) < AudioQueueCap) =>
              ENABLED (CallbackSend(t) /\ audio_q' = Append(audio_q, capture.calls[t].out))

\* C35: for any number of failing audio callbacks, concurrent ones
\* included, one warning is logged, the stop flag is not set, and later
\* well-formed buffers are still decoded and forwarded to the audio queue.
C35_DecodeErrorsWarnedOnce ==
    /\ WarnedOnce
    /\ ~stop
    /\ StillForwards

\* a second call has failed while the first was being handled, the warning
\* is out, and a chunk decoded since is on the audio queue
C35_Witness ==
    /\ capture.warned_decode_error
    /\ capture.warnings = 1
    /\ capture.calls["cb1"].pc = "warn"
    /\ capture.calls["cb2"].pc = "send"
    /\ audio_q # << >>

\* two calls have failed and neither has reached the swap
C35_WitnessConcurrent ==
    /\ ~capture.warned_decode_error
    /\ \A t \in CallbackThreads : capture.calls[t].pc = "warn"

(***************************************************************************)
(* C36: the stash of push_audio                                             *)
(***************************************************************************)
\* the samples of the stash that no frame has consumed
StashRemainder == SubSeq(seg.stash, seg.stash_pos + 1, Len(seg.stash))

\* C36: after every push_audio the unconsumed remainder of the stash is
\* shorter than a frame, stash_pos <= 128 x frame_size and stash.len() <
\* 129 x frame_size, and the remainder is the part of the stream that
\* follows the last frame processed, compacted or not.
C36_StashBounded ==
    /\ seg.stash_pos <= Len(seg.stash)
    /\ Len(StashRemainder) < seg.frame_size
    /\ seg.stash_pos <= CompactFrames * seg.frame_size
    /\ Len(seg.stash) < (CompactFrames + 1) * seg.frame_size
    /\ StashRemainder = SubSeq(input, frames_done * seg.frame_size + 1, fed)

\* the stash has been compacted with a sample left over, and a frame has
\* been taken from the compacted stash since
C36_Witness ==
    /\ frames_done > CompactFrames + 1
    /\ seg.stash_pos = seg.frame_size
    /\ Len(seg.stash) = seg.frame_size + 1
    /\ events # << >>

\* the cursor stands at CompactFrames frames exactly: no compaction yet
C36_WitnessAtLimit ==
    /\ seg.stash_pos = CompactFrames * seg.frame_size
    /\ Len(StashRemainder) = 1

(***************************************************************************)
(* C37: the events do not depend on how the stream is cut into chunks       *)
(***************************************************************************)
\* a new segmenter of the same configuration given the first n samples of
\* the stream in one push_audio call
OneCall(n) == push_audio(new(seg.cfg), SubSeq(input, 1, n), 0)

\* C37: however the samples fed so far were split into push_audio calls,
\* the events returned so far, kinds and payloads, are those of one call
\* with all of these samples, and so are the speech state, the utterance
\* and the pre-roll.
C37_ChunkPartitionInvariance ==
    \E r \in {OneCall(fed)} :
        /\ events = r.out
        /\ onsets = r.onsets
        /\ frames_done = r.nframes
        /\ seg.in_speech = r.seg.in_speech
        /\ seg.utterance = r.seg.utterance
        /\ seg.pre_roll = r.seg.pre_roll
        /\ seg.silent_frames = r.seg.silent_frames
        /\ seg.last_asr_samples = r.seg.last_asr_samples

\* the stream has been fed in chunks that end inside a frame, the stash was
\* compacted on the way with a sample left over, and an utterance that
\* began before the compaction ended after it
C37_Witness ==
    /\ seg.stash_pos = seg.frame_size
    /\ Len(seg.stash) = seg.frame_size + 1
    /\ \E i \in 1..Len(events) :
          /\ events[i].kind = "Final"
          /\ events[i].frame > CompactFrames
          /\ Len(events[i].audio) > 2 * seg.frame_size

(***************************************************************************)
(* C38: a Reset ends only utterances without a Partial                      *)
(***************************************************************************)
\* C38: an utterance for which a Partial was emitted ends in a Final: the
\* event before a Reset, if any, is the Final or Reset of the utterance
\* before, and a Partial is as long as min_speech_samples at least.
C38_NoResetAfterPartial ==
    \A i \in 1..Len(events) :
        /\ events[i].kind = "Reset" => (i = 1 \/ Terminating(events[i - 1]))
        /\ events[i].kind = "Partial" => Len(events[i].utt) >= seg.min_speech_samples

\* one utterance was dropped with a Reset, another had a Partial and ended
\* in a Final
C38_Witness ==
    /\ \E i \in 1..Len(events) : events[i].kind = "Reset"
    /\ \E i \in 1..(Len(events) - 1) :
          events[i].kind = "Partial" /\ events[i + 1].kind = "Final"

(***************************************************************************)
(* C39: the two segmenters on the same stream                               *)
(***************************************************************************)
\* the segments of a new Segmenter of the same settings given the samples
\* fed so far, in one call and in two calls cut after k samples
SegmentsOneCall ==
    Segmenter_push_audio(Segmenter_new(seg.cfg), SubSeq(input, 1, fed), 0).out

SegmentsTwoCalls(k) ==
    LET a == Segmenter_push_audio(Segmenter_new(seg.cfg), SubSeq(input, 1, k), 0)
        b == Segmenter_push_audio(a.seg, SubSeq(input, k + 1, fed), a.nframes)
    IN  a.out \o b.out

\* the Final and Reset events so far
Endings == SelectSeq(events, Terminating)

\* C39: on the same stream and settings, Segmenter emits a segment at the
\* frames where StreamingSegmenter emits a Final or a Reset and at no
\* other, and the segment at the frame of a Final is the payload of the
\* Final, sample for sample.
C39_SegmentersAgree ==
    \E segments \in {SegmentsOneCall} :
        /\ Len(segments) = Len(Endings)
        /\ \A i \in 1..Len(segments) :
              /\ segments[i].frame = Endings[i].frame
              /\ Endings[i].kind = "Final" => segments[i].audio = Endings[i].audio
        /\ \A k \in 0..fed : SegmentsTwoCalls(k) = segments

\* both segmenters have ended two utterances, one of them too short for a
\* Final
C39_Witness ==
    /\ Len(SegmentsOneCall) = 2
    /\ \E i, j \in 1..Len(events) : events[i].kind = "Final" /\ events[j].kind = "Reset"
    /\ \E i \in 1..Len(events) : events[i].kind = "Partial"

(***************************************************************************)
(* C40: start_engine fails after the processing thread was spawned          *)
(***************************************************************************)
\* after the failed start: the stop flag is clear, no capture and no
\* transcription thread exist, no audio was ever queued and no event sent
FailedStartIsQuiet ==
    sup.ret = "err" =>
        /\ ~stop
        /\ AudioDisconnected
        /\ capture.pc = "idle"
        /\ worker.pc = "idle"
        /\ audio_q = << >>
        /\ event_q = << >>
        /\ hist.queued = {}
        /\ producer.next_id = 1
        /\ last_send = NoSendYet

\* C40: when the backend fails to initialise, start_engine returns the
\* error with the processing thread already spawned; the stop flag is never
\* set, the audio sender is dropped, and the processing thread comes to see
\* the audio queue disconnected and ends without having sent an event.
C40_NoLeakedWorker ==
    /\ []FailedStartIsQuiet
    /\ (sup.ret = "err") ~> (proc.pc = "done")

\* the processing thread has ended after a failed start
C40_Witness ==
    /\ sup.ret = "err"
    /\ proc.pc = "done"
    /\ ~stop
    /\ ~producer.alive

====
